---- MODULE Spec2Model ----
(***************************************************************************)
(* State-machine model of the viewers of cirspecte:                        *)
(*   - timelineViewer (src/unnamed/part_000): items, groups, selection,    *)
(*     aggregation of items into range items;                              *)
(*   - mapViewer (src/assets/js/filesystem.js): points, lines, layer       *)
(*     groups, control groups and the Leaflet containers they live in.     *)
(* The graph classes (vertex, edge, spatialGroup, temporalGroup) are not   *)
(* part of the sources at hand; the few accessors of them the viewers use  *)
(* (forEach, isMultiselect, superGroup, opposite) are modelled from the    *)
(* written specification and marked so.                                    *)
(***************************************************************************)
EXTENDS Integers, Sequences, FiniteSets, TLC

VARIABLES
    \* ---- graph model, as far as the viewers read it
    sgSuper,      \* spatialGroup.superGroup: SG -> TG \cup {None} (None: no such group)
    multiselect,  \* temporalGroup multiselect flag: TG -> BOOLEAN
    timeslot,     \* spatialGroup.timeslot: SG -> Nat
    \* ---- settings and the timeline widget (inputs of timelineViewer)
    settingsSel,  \* settings.timeline.selections: the ids the settings hold
    aggregate,    \* settings.aggregateItems()
    win,          \* timeline.getWindow() and scale: [start, end, mpp, width]
    \* ---- timelineViewer
    items,        \* this.items: the registered ids (item id = spatial group id)
    itemGroup,    \* item.group of the item with that id
    sgItem,       \* g.item is set (the spatial group references its item)
    groups,       \* this.groups: keys in insertion order
    nestedGroups, \* group.nestedGroups: TG -> sequence of ids
    tgGroup,      \* g.group is set (the temporal group references its timeline group)
    selections,   \* this.selections: the selected ids
    tlWidth,      \* this.width
    tlStart,      \* this.start
    tlEnd,        \* this.end
    rendered,     \* the DataSet the widget currently shows (last setItems)
    tlSelection,  \* the ids of the last setSelection
    \* ---- mapViewer
    vSG,          \* vertex.spatialGroup: V -> SG
    opposite,     \* edge.opposite: E -> E \cup {None}
    point,        \* v.point: V -> record or NoPoint
    line,         \* e.line: E -> canonical edge of the shared line, or None
    layerGroup,   \* g.layerGroup: SG -> record or NoVisual
    controlGroup, \* g.controlGroup: TG -> record or NoVisual
    overlayTree,  \* this.overlayTree: control groups listed at the root
    layers,       \* this.layers: the layer -> element lookup (set of visuals)
    onMap,        \* Leaflet: layers currently on the map
    kids,         \* Leaflet: members of each feature group layer
    lineGroup,    \* this.lineGroup: line layers attached to the line container
    stamps,       \* Leaflet: the point layers in the order of their internal ids
    vCoord,       \* vertex.coordinates: V -> <<lat, lng>>
    pCoord,       \* Leaflet: the lat/lng of each point's marker, or NoVisual
    lCoord,       \* Leaflet: the lat/lngs of each line's polyline, or <<>>
    \* ---- algorithms: the import of tour files
    json,         \* the tour files: what each declares, and which declarations are malformed
    imp,          \* the import in progress: pending reads, create calls, log, values emitted
    \* ---- filesystem: the links between vertices and image files
    imageFile,    \* v.image.file: the file a vertex or background is linked to, or None
    fileVertex,   \* f.vertex: the vertex a file is linked to, or None
    background,   \* b.background: the file of a background, or None
    usedFiles,    \* file.prototype.usedFiles: the paths of the linked files
    \* ---- filesystem: one webkitdirectory and the scans of it
    dirFiles,     \* this.files: name -> the stored file, or NoEntry
    dirDirs,      \* this.directories: name -> the stored directory, or NoEntry
    dirHandle,    \* this.directoryHandle is set
    listing,      \* what the reader of the directory handle returns, batch by batch
    loading,      \* this.loading
    scanned,      \* this.scanned
    scans,        \* the observables scan() has returned, in the order of the calls
    \* ---- filesystem: the accessors that hand picked files to a requester
    targetSubject,\* this.targetSubject of each accessor: a subject of its, or 0 if unset
    subjects,     \* the subjects each accessor has created: state and values received
    pickers,      \* the native pickers opened by the requests of each accessor
    \* ---- history of the last operation
    op,           \* [name, arg]: the operation that produced this state
    events,       \* events emitted by the last operation, in order
    seen,         \* for each of these events: what the viewer's state was when it was emitted
    calls,        \* calls into the widget made by the last operation, in order
    result        \* what the last operation returned

tlVars  == <<sgSuper, multiselect, timeslot, settingsSel, aggregate, win, items,
             itemGroup, sgItem, groups, nestedGroups, tgGroup, selections,
             tlWidth, tlStart, tlEnd, rendered, tlSelection>>
mapVars == <<vSG, opposite, point, line, layerGroup, controlGroup, overlayTree,
             layers, onMap, kids, lineGroup, stamps, vCoord, pCoord, lCoord>>
imVars  == <<json, imp>>
linkVars == <<imageFile, fileVertex, background, usedFiles>>
dirVars == <<dirFiles, dirDirs, dirHandle, listing, loading, scanned, scans>>
accVars == <<targetSubject, subjects, pickers>>
fsVars  == <<linkVars, dirVars, accVars>>
hisVars == <<op, events, seen, calls, result>>
vars    == <<tlVars, mapVars, imVars, fsVars, hisVars>>

None == "none"

(***************************************************************************)
(* Generic helpers                                                         *)
(***************************************************************************)
Range(s) == {s[k] : k \in DOMAIN s}

Has(s, x) == \E k \in DOMAIN s : s[k] = x

Without(s, x) == SelectSeq(s, LAMBDA y : y # x)

\* the first occurrence of x leaves the array (indexOf, splice)
RemoveFirst(s, x) ==
    IF Has(s, x)
    THEN LET k == CHOOSE j \in DOMAIN s : s[j] = x /\ \A i \in 1..(j - 1) : s[i] # x
         IN SubSeq(s, 1, k - 1) \o SubSeq(s, k + 1, Len(s))
    ELSE s

\* all sequences without repetition over S of length at most n
RECURSIVE Arrangements(_, _)
Arrangements(S, n) ==
    IF n = 0 THEN {<<>>}
    ELSE {<<>>} \cup UNION {{<<x>> \o r : r \in Arrangements(S \ {x}, n - 1)} : x \in S}

(***************************************************************************)
(* The graph model as the timeline viewer reads it                         *)
(***************************************************************************)
SG == {"g1", "g2", "g3", "g4", "g5"}     \* spatial group ids
TG == {"t1", "t2"}                       \* temporal group ids
SGOrder == <<"g1", "g2", "g3", "g4", "g5">>

\* temporalGroup.forEach: the spatial groups currently under t, in order
subGroups(t) == SelectSeq(SGOrder, LAMBDA g : sgSuper[g] = t)

\* spatialGroup.isMultiselect(): the setting of the owning temporal group
isMultiselect(g) == multiselect[sgSuper[g]]

\* item.start: the group's timeslot, a date object copied by the constructor
ItemStart(g) == timeslot[g]

(***************************************************************************)
(* timelineViewer: the state its methods work on, as one record            *)
(***************************************************************************)
TLState == [items |-> items, itemGroup |-> itemGroup, sgItem |-> sgItem,
            groups |-> groups, nestedGroups |-> nestedGroups, tgGroup |-> tgGroup,
            selections |-> selections, tlWidth |-> tlWidth, tlStart |-> tlStart,
            tlEnd |-> tlEnd, rendered |-> rendered, tlSelection |-> tlSelection,
            events |-> <<>>, seen |-> <<>>, calls |-> <<>>]

TLCommit(s) ==
    /\ items' = s.items
    /\ itemGroup' = s.itemGroup
    /\ sgItem' = s.sgItem
    /\ groups' = s.groups
    /\ nestedGroups' = s.nestedGroups
    /\ tgGroup' = s.tgGroup
    /\ selections' = s.selections
    /\ tlWidth' = s.tlWidth
    /\ tlStart' = s.tlStart
    /\ tlEnd' = s.tlEnd
    /\ rendered' = s.rendered
    /\ tlSelection' = s.tlSelection
    /\ events' = s.events
    /\ seen' = s.seen
    /\ calls' = s.calls

Ev(kind, id, action) == [kind |-> kind, id |-> id, action |-> action]

NoVisual == [absent |-> TRUE]

\* the visual is in the viewer's lookup (this.items, this.groups, this.layers)
registered(s, kind, id) ==
    CASE kind = "item" -> id \in s.items
      [] kind = "group" -> Has(s.groups, id)
      [] OTHER -> id \in s.layers

\* the model entity references the visual (g.item, g.group, v.point, e.line,
\* g.layerGroup, g.controlGroup)
referenced(s, kind, id) ==
    CASE kind = "item" -> s.sgItem[id]
      [] kind = "group" -> s.tgGroup[id]
      [] kind = "point" -> s.point[id] # NoVisual
      [] kind = "line" -> \E e \in DOMAIN s.line : s.line[e] = id
      [] kind = "layerGroup" -> s.layerGroup[id] # NoVisual
      [] OTHER -> s.controlGroup[id] # NoVisual

\* observable.emit(elem, action): the subscribers run while the viewer is in state s
emit(s, kind, id, action) ==
    [s EXCEPT !.events = Append(@, Ev(kind, id, action)),
              !.seen = Append(@, [registered |-> registered(s, kind, id),
                                  referenced |-> referenced(s, kind, id),
                                  selected |-> kind = "item" /\ id \in s.selections])]

\* the id of an element handed to the widget: the item's id, or for a rangeItem
\* items[0].id + "-" + lastItem.id
ElemId(el) == IF el.kind = "range" THEN el.first \o "-" \o el.last ELSE el.first

\* faulty variant: the id of a shown rangeItem is resolved to its first member
getItem_FirstMember(s, i) ==
    IF i \in s.items THEN i
    ELSE IF \E el \in s.rendered : ElemId(el) = i
         THEN (CHOOSE el \in s.rendered : ElemId(el) = i).first
         ELSE None

\* timelineViewer.getItem: the id when registered, else nothing
getItem(s, i) == IF i \in s.items THEN i ELSE None

isSelected(s, i) == i # None /\ i \in s.selections

\* faulty variant: the widget is handed the selection it already shows
refreshSelections_Stale(s) ==
    [s EXCEPT !.calls = Append(@, [fn |-> "setSelection", ids |-> s.tlSelection])]

\* timelineViewer.refreshSelections
refreshSelections(s) ==
    [s EXCEPT !.tlSelection = s.selections,
              !.calls = Append(@, [fn |-> "setSelection", ids |-> s.selections])]

\* the loop "deselect others" of toggleSelection over superGroup.forEach
RECURSIVE DeselectOthers(_, _)
DeselectOthers(s, todo) ==
    IF todo = <<>> THEN s
    ELSE LET sg == Head(todo) IN
         IF s.sgItem[sg] /\ sg \in s.selections
         THEN DeselectOthers(
                  emit([s EXCEPT !.selections = @ \ {sg}], "item", sg, "deselect"),
                  Tail(todo))
         ELSE DeselectOthers(s, Tail(todo))

\* faulty variant: the sweep looks at the first sibling only
DeselectSiblings_FirstOnly(s, i) ==
    IF sgSuper[i] # None /\ ~isMultiselect(i)
    THEN DeselectOthers(s, SubSeq(subGroups(sgSuper[i]), 1, 1))
    ELSE s

\* the sibling sweep of toggleSelection, guarded as in the code
DeselectSiblings(s, i) ==
    IF sgSuper[i] # None /\ ~isMultiselect(i)
    THEN DeselectOthers(s, subGroups(sgSuper[i]))
    ELSE s

\* faulty variant: a deselection is not handed to the widget
toggleSelection_SilentDeselect(s, i, select) ==
    IF i = None THEN s
    ELSE LET sel == IF select = "null" THEN ~isSelected(s, i) ELSE select = "true" IN
         IF sel
         THEN IF ~isSelected(s, i)
              THEN LET s1 == DeselectSiblings(s, i)
                       s2 == [s1 EXCEPT !.selections = @ \cup {i}]
                   IN refreshSelections(emit(s2, "item", i, "select"))
              ELSE s
         ELSE IF i \in s.selections
              THEN emit([s EXCEPT !.selections = @ \ {i}], "item", i, "deselect")
              ELSE s

\* faulty variant: selecting a selected item announces SELECT again
toggleSelection_Reselect(s, i, select) ==
    IF i = None THEN s
    ELSE LET sel == IF select = "null" THEN ~isSelected(s, i) ELSE select = "true" IN
         IF sel
         THEN LET s1 == IF isSelected(s, i) THEN s ELSE DeselectSiblings(s, i)
                  s2 == [s1 EXCEPT !.selections = @ \cup {i}]
              IN refreshSelections(emit(s2, "item", i, "select"))
         ELSE IF i \in s.selections
              THEN refreshSelections(
                       emit([s EXCEPT !.selections = @ \ {i}], "item", i, "deselect"))
              ELSE s

\* timelineViewer.toggleSelection(i, select); select is "true", "false" or "null"
toggleSelection(s, i, select) ==
    IF i = None THEN s
    ELSE LET sel == IF select = "null" THEN ~isSelected(s, i) ELSE select = "true" IN
         IF sel
         THEN IF ~isSelected(s, i)
              THEN LET s1 == DeselectSiblings(s, i)
                       s2 == [s1 EXCEPT !.selections = @ \cup {i}]
                   IN refreshSelections(emit(s2, "item", i, "select"))
              ELSE s
         ELSE IF i \in s.selections
              THEN refreshSelections(
                       emit([s EXCEPT !.selections = @ \ {i}], "item", i, "deselect"))
              ELSE s

(***************************************************************************)
(* Aggregation (timelineViewer.refreshItems)                               *)
(***************************************************************************)
ItemWidth == 160
NowT == 100000      \* this.start, this.end = new Date() at construction

\* an element handed to the widget: an item, or a rangeItem over its members
ItemElem(s, g) == [kind |-> "item", first |-> g, last |-> g, members |-> <<g>>,
                   group |-> s.itemGroup[g], start |-> ItemStart(g), end |-> ItemStart(g)]

\* class rangeItem
rangeItem(s, itemArray) ==
    LET f == itemArray[1]
        l == itemArray[Len(itemArray)]
    IN [kind |-> "range", first |-> f, last |-> l, members |-> itemArray,
        group |-> s.itemGroup[f], start |-> ItemStart(f), end |-> ItemStart(l)]

\* faulty variant: runs of two are merged as well
processArray_MergePairs(s, itemArray) ==
    IF Len(itemArray) = 0 THEN <<>>
    ELSE IF Len(itemArray) = 1 THEN <<ItemElem(s, itemArray[1])>>
    ELSE <<rangeItem(s, itemArray)>>

\* processArray of refreshItems: what a finished run contributes
processArray(s, itemArray) ==
    IF Len(itemArray) = 0 THEN <<>>
    ELSE IF Len(itemArray) = 1 THEN <<ItemElem(s, itemArray[1])>>
    ELSE IF Len(itemArray) = 2 THEN <<ItemElem(s, itemArray[1]), ItemElem(s, itemArray[2])>>
    ELSE <<rangeItem(s, itemArray)>>

\* Array.prototype.sort((a, b) => a.start - b.start): stable, ascending by start
RECURSIVE InsertByStart(_, _)
InsertByStart(sorted, g) ==
    IF sorted = <<>> THEN <<g>>
    ELSE IF ItemStart(g) < ItemStart(Head(sorted))
         THEN <<g>> \o sorted
         ELSE <<Head(sorted)>> \o InsertByStart(Tail(sorted), g)

RECURSIVE SortByStart(_)
SortByStart(seq) ==
    IF seq = <<>> THEN <<>>
    ELSE InsertByStart(SortByStart(SubSeq(seq, 1, Len(seq) - 1)), seq[Len(seq)])

\* the walk over the sorted items of one row; first: no latestStart yet
RECURSIVE Walk(_, _, _, _, _, _)
Walk(s, todo, itemArray, first, latestStart, criticalDuration) ==
    IF todo = <<>> THEN processArray(s, itemArray)
    ELSE LET i == Head(todo) IN
         IF ~first
         THEN IF ItemStart(i) - latestStart < criticalDuration
              THEN Walk(s, Tail(todo), Append(itemArray, i), FALSE, ItemStart(i),
                        criticalDuration)
              ELSE processArray(s, itemArray)
                   \o Walk(s, Tail(todo), <<i>>, FALSE, ItemStart(i), criticalDuration)
         ELSE Walk(s, Tail(todo), <<i>>, FALSE, ItemStart(i), criticalDuration)

\* the items of one row: members of the temporal group that are registered and visible
groupItems(s, t, start, end) ==
    SelectSeq(subGroups(t),
              LAMBDA g : g \in s.items /\ start <= ItemStart(g) /\ ItemStart(g) <= end)

RECURSIVE AggregateRows(_, _, _, _, _)
AggregateRows(s, todo, start, end, criticalDuration) ==
    IF todo = <<>> THEN <<>>
    ELSE Walk(s, SortByStart(groupItems(s, Head(todo), start, end)), <<>>, TRUE, 0,
              criticalDuration)
         \o AggregateRows(s, Tail(todo), start, end, criticalDuration)

AllItems(s) == {ItemElem(s, g) : g \in s.items}

\* millisecondsPerPixelCache || (window.end - window.start) / width; w.mpp is the
\* cache, 0 when it is not set
Scale(w) == IF w.mpp # 0 THEN w.mpp ELSE (w.end - w.start) \div w.width

\* faulty variant: the guard does not look at force
refreshItemsAt_IgnoreForce(s, force, agg, w) ==
    LET width == w.width
        millisecondsPerPixel == Scale(w)
        criticalDuration == (millisecondsPerPixel * ItemWidth) \div 2
        start == w.start - ItemWidth * millisecondsPerPixel
        end == w.end
    IN IF width = s.tlWidth /\ start = s.tlStart /\ end = s.tlEnd
       THEN s
       ELSE LET s1 == [s EXCEPT !.tlWidth = width, !.tlStart = start, !.tlEnd = end]
                shown == IF agg
                         THEN Range(AggregateRows(s1, s1.groups, start, end,
                                                  criticalDuration))
                         ELSE AllItems(s1)
                s2 == [s1 EXCEPT !.rendered = shown,
                                 !.calls = Append(@, [fn |-> "setItems", ids |-> <<>>])]
            IN refreshSelections(s2)

\* timelineViewer.refreshItems(force), reading the settings' toggle agg and the
\* widget's window w at the time of the call
refreshItemsAt(s, force, agg, w) ==
    LET width == w.width
        millisecondsPerPixel == Scale(w)
        criticalDuration == (millisecondsPerPixel * ItemWidth) \div 2
        start == w.start - ItemWidth * millisecondsPerPixel
        end == w.end
    IN IF ~force /\ width = s.tlWidth /\ start = s.tlStart /\ end = s.tlEnd
       THEN s
       ELSE LET s1 == [s EXCEPT !.tlWidth = width, !.tlStart = start, !.tlEnd = end]
                shown == IF agg
                         THEN Range(AggregateRows(s1, s1.groups, start, end,
                                                  criticalDuration))
                         ELSE AllItems(s1)
                s2 == [s1 EXCEPT !.rendered = shown,
                                 !.calls = Append(@, [fn |-> "setItems", ids |-> <<>>])]
            IN refreshSelections(s2)

refreshItems(s, force) == refreshItemsAt(s, force, aggregate, win)

(***************************************************************************)
(* timelineViewer: operations                                              *)
(***************************************************************************)
\* timelineViewer.createItem(g)
createItem(s, g) ==
    IF g \in s.items THEN s
    ELSE LET s1 == [s EXCEPT !.items = @ \cup {g}, !.itemGroup[g] = sgSuper[g],
                             !.sgItem[g] = TRUE]
             s2 == emit(s1, "item", g, "create")
         IN IF g \in settingsSel THEN toggleSelection(s2, g, "true") ELSE s2

\* faulty variant: DELETE is emitted before the item is deselected
deleteItem_DeleteFirst(s, g) ==
    IF g \in s.items
    THEN LET s1 == [s EXCEPT !.items = @ \ {g}] IN
         IF s1.sgItem[g]
         THEN LET s2 == emit(s1, "item", g, "delete")
                  s3 == toggleSelection(s2, g, "false")
              IN refreshItems([s3 EXCEPT !.sgItem[g] = FALSE], TRUE)
         ELSE s1
    ELSE s

\* timelineViewer.deleteItem(g)
deleteItem(s, g) ==
    IF g \in s.items
    THEN LET s1 == [s EXCEPT !.items = @ \ {g}] IN
         IF s1.sgItem[g]
         THEN LET s2 == toggleSelection(s1, g, "false")
                  s3 == [s2 EXCEPT !.sgItem[g] = FALSE]
              IN emit(refreshItems(s3, TRUE), "item", g, "delete")
         ELSE s1
    ELSE s

\* faulty variant: the group is recorded and no forced refresh follows
updateItem_NoRefresh(s, g) ==
    IF s.itemGroup[g] # sgSuper[g]
    THEN LET s1 == [s EXCEPT !.itemGroup[g] = sgSuper[g]]
         IN [s1 EXCEPT !.rendered = AllItems(s1),
                       !.calls = Append(@, [fn |-> "setItems", ids |-> <<>>])]
    ELSE s

\* timelineViewer.updateItem(g)
updateItem(s, g) ==
    IF s.itemGroup[g] # sgSuper[g]
    THEN LET s1 == [s EXCEPT !.itemGroup[g] = sgSuper[g]]
             s2 == [s1 EXCEPT !.rendered = AllItems(s1),
                              !.calls = Append(@, [fn |-> "setItems", ids |-> <<>>])]
         IN refreshItems(s2, TRUE)
    ELSE s

\* handler of the widget's 'select' event: prop.items.forEach(...)
RECURSIVE onSelect(_, _)
onSelect(s, ids) ==
    IF ids = <<>> THEN s
    ELSE LET item == getItem(s, Head(ids)) IN
         IF item # None
         THEN onSelect(emit(toggleSelection(s, item, "null"), "item", item, "click"),
                       Tail(ids))
         ELSE onSelect(s, Tail(ids))

\* settings.timeline.selections subscription, first loop: this.selections.forEach.
\* A deselection removes only the entry it visits, so the order of the visit (the
\* Map's insertion order) decides nothing but the order of the events; the visit is
\* modelled in id order.
RECURSIVE deselectAbsent(_, _, _)
deselectAbsent(s, todo, val) ==
    IF todo = <<>> THEN s
    ELSE IF Head(todo) \in s.selections /\ ~Has(val, Head(todo))
         THEN deselectAbsent(toggleSelection(s, Head(todo), "false"), Tail(todo), val)
         ELSE deselectAbsent(s, Tail(todo), val)

\* second loop: selections.forEach(i => toggleSelection(getItem(i), true))
RECURSIVE selectListed(_, _)
selectListed(s, todo) ==
    IF todo = <<>> THEN s
    ELSE selectListed(toggleSelection(s, getItem(s, Head(todo)), "true"), Tail(todo))

\* faulty variant: the subscription only adds, it never deselects
onSelections_AddOnly(s, val) ==
    selectListed(s, val)

\* settings.timeline.selections.subscribe(val => ...)
onSelections(s, val) ==
    selectListed(deselectAbsent(s, SGOrder, val), val)

\* config.onRemove(item, callback): the user removes a shown item
onRemove(s, g) ==
    LET s1 == [s EXCEPT !.sgItem[g] = FALSE]
        s2 == emit(s1, "item", g, "delete")
    IN [s2 EXCEPT !.rendered = {el \in @ : ~(el.kind = "item" /\ el.first = g)}]

\* temporalGroup.superGroup: t2 is nested in t1
tgSuper(t) == IF t = "t2" THEN "t1" ELSE None

\* timelineViewer.refreshGroups
refreshGroups(s) == [s EXCEPT !.calls = Append(@, [fn |-> "setGroups", ids |-> {}])]

\* new group(g) dereferences g.superGroup.group: it throws a TypeError when the
\* super group has no timeline group
createGroupThrows(s, t) ==
    ~Has(s.groups, t) /\ tgSuper(t) # None /\ ~s.tgGroup[tgSuper(t)]

\* timelineViewer.createGroup(g), for a call that does not throw
createGroup(s, t) ==
    IF Has(s.groups, t) THEN s
    ELSE LET sup == tgSuper(t)
             s1 == IF sup # None THEN [s EXCEPT !.nestedGroups[sup] = Append(@, t)]
                   ELSE s
             s2 == [s1 EXCEPT !.nestedGroups[t] = <<>>, !.tgGroup[t] = TRUE,
                              !.groups = Append(@, t)]
         IN emit(refreshGroups(s2), "group", t, "create")

\* deleteGroup applied to an entry of nestedGroups: the entry is an id string, its
\* .id is undefined and this.groups.delete(undefined) finds nothing
deleteGroupById(s, id) == s

RECURSIVE deleteNested(_, _)
deleteNested(s, ids) ==
    IF ids = <<>> THEN s ELSE deleteNested(deleteGroupById(s, Head(ids)), Tail(ids))

\* the loop of deleteGroup over this.items.values()
RECURSIVE deleteItemsOf(_, _, _)
deleteItemsOf(s, todo, t) ==
    IF todo = <<>> THEN s
    ELSE IF Head(todo) \in s.items /\ s.itemGroup[Head(todo)] = t
         THEN deleteItemsOf(deleteItem(s, Head(todo)), Tail(todo), t)
         ELSE deleteItemsOf(s, Tail(todo), t)

\* timelineViewer.deleteGroup(g)
deleteGroup(s, t) ==
    IF ~Has(s.groups, t) THEN s
    ELSE LET s1 == [s EXCEPT !.groups = RemoveFirst(@, t)]
             s2 == deleteNested(s1, s1.nestedGroups[t])
             s3 == deleteItemsOf(s2, SGOrder, t)
             sup == tgSuper(t)
             s4 == IF sup # None /\ s3.tgGroup[sup]
                   THEN [s3 EXCEPT !.nestedGroups[sup] = RemoveFirst(@, t)]
                   ELSE s3
             s5 == [s4 EXCEPT !.tgGroup[t] = FALSE, !.nestedGroups[t] = <<>>]
         IN emit(refreshGroups(s5), "group", t, "delete")

(***************************************************************************)
(* The graph model as the map viewer reads it                              *)
(***************************************************************************)
V == {"v1", "v2"}                        \* vertex ids
E == {"e12", "e21"}                      \* edge ids: e12 from v1 to v2, e21 back
MSG == {"g1", "g2"}                      \* the spatial groups shown on the map
EOrder == <<"e12", "e21">>
GroupOrder == <<"t1", "t2", "g1", "g2">>

\* edge.from and edge.to
EFrom(e) == IF e = "e12" THEN "v1" ELSE "v2"
ETo(e) == IF e = "e12" THEN "v2" ELSE "v1"

\* the edges of the graph: e12 always, e21 when the connection is bidirectional
Edges == {e \in E : e = "e12" \/ opposite["e12"] = e}

\* vertex.forEach: the outgoing edges of v
outEdges(v) == SelectSeq(EOrder, LAMBDA e : e \in Edges /\ EFrom(e) = v)

\* coordinates are pairs <<lat, lng>>; Leaflet keeps them as objects {lat, lng}
coordsToLatLng(coords) == [lat |-> coords[1], lng |-> coords[2]]
latLngToCoords(latlng) == <<latlng.lat, latlng.lng>>
coordsToLatLngs(coords) == [k \in DOMAIN coords |-> coordsToLatLng(coords[k])]
latLngsToCoords(latlngs) == [k \in DOMAIN latlngs |-> latLngToCoords(latlngs[k])]

\* deep equality of two coordinate values
recursiveCompare(a, b) == a = b

(***************************************************************************)
(* References to container visuals.  A visual holds its parent by          *)
(* reference, so it can keep a container that the model entity has already *)
(* dropped: Dead(x) is the deleted visual of x, Live(x) the current one.   *)
(***************************************************************************)
Live(x) == [k |-> "live", of |-> x]
Dead(x) == [k |-> "dead", of |-> x]
Null == [k |-> "null", of |-> "-"]
Undef == [k |-> "undefined", of |-> "-"]

Truthy(r) == r.k \in {"live", "dead"}


Vis(kind, id) == [kind |-> kind, id |-> id]
NoResult == Vis("undefined", "-")

(***************************************************************************)
(* mapViewer: the state its methods work on, as one record                 *)
(***************************************************************************)
MState == [point |-> point, line |-> line, layerGroup |-> layerGroup,
           controlGroup |-> controlGroup, overlayTree |-> overlayTree,
           layers |-> layers, onMap |-> onMap, kids |-> kids,
           lineGroup |-> lineGroup, stamps |-> stamps, pCoord |-> pCoord,
           lCoord |-> lCoord, events |-> <<>>, seen |-> <<>>, writes |-> <<>>,
           threw |-> FALSE]

MCommit(m) ==
    /\ point' = m.point
    /\ line' = m.line
    /\ layerGroup' = m.layerGroup
    /\ controlGroup' = m.controlGroup
    /\ overlayTree' = m.overlayTree
    /\ layers' = m.layers
    /\ onMap' = m.onMap
    /\ kids' = m.kids
    /\ lineGroup' = m.lineGroup
    /\ stamps' = m.stamps
    /\ pCoord' = m.pCoord
    /\ lCoord' = m.lCoord
    /\ events' = m.events
    /\ seen' = m.seen

\* mapViewer.isVisible
isVisible(m, x) == x \in m.onMap

(***************************************************************************)
(* Leaflet: a layer is on the map or not; a feature group has members and  *)
(* takes them along when it enters or leaves the map; a point layer fires  *)
(* 'add' and 'remove' to the listeners createPoint registered.             *)
(***************************************************************************)
\* the 'add' listener of createPoint, over p.vertex.forEach
RECURSIVE attachLines(_, _)
attachLines(m, todo) ==
    IF todo = <<>> THEN m
    ELSE LET e == Head(todo) IN
         IF m.line[e] # None /\ m.point[ETo(e)] # NoVisual /\ isVisible(m, ETo(e))
         THEN attachLines([m EXCEPT !.lineGroup = @ \cup {m.line[e]}], Tail(todo))
         ELSE attachLines(m, Tail(todo))

\* the 'remove' listener of createPoint, over p.vertex.forEach
RECURSIVE detachLines(_, _)
detachLines(m, todo) ==
    IF todo = <<>> THEN m
    ELSE LET e == Head(todo) IN
         IF m.line[e] # None
         THEN detachLines([m EXCEPT !.lineGroup = @ \ {m.line[e]}], Tail(todo))
         ELSE detachLines(m, Tail(todo))

\* eachLayer: members in the order of their internal ids
KidsSeq(m, c) ==
    IF c \in MSG THEN SelectSeq(m.stamps, LAMBDA v : v \in m.kids[c])
    ELSE SelectSeq(GroupOrder, LAMBDA x : x \in m.kids[c])

RECURSIVE mapAddLayer(_, _), mapAddAll(_, _), mapRemoveLayer(_, _), mapRemoveAll(_, _)
\* L.Map.addLayer
mapAddLayer(m, x) ==
    IF x \in m.onMap THEN m
    ELSE LET m1 == [m EXCEPT !.onMap = @ \cup {x}] IN
         IF x \in V THEN attachLines(m1, outEdges(x))
         ELSE mapAddAll(m1, KidsSeq(m1, x))

mapAddAll(m, todo) ==
    IF todo = <<>> THEN m ELSE mapAddAll(mapAddLayer(m, Head(todo)), Tail(todo))

\* L.Map.removeLayer, also reached by layer.remove()
mapRemoveLayer(m, x) ==
    IF x \notin m.onMap THEN m
    ELSE IF x \in V
         THEN detachLines([m EXCEPT !.onMap = @ \ {x}], outEdges(x))
         ELSE LET m1 == mapRemoveAll(m, KidsSeq(m, x))
              IN [m1 EXCEPT !.onMap = @ \ {x}]

mapRemoveAll(m, todo) ==
    IF todo = <<>> THEN m ELSE mapRemoveAll(mapRemoveLayer(m, Head(todo)), Tail(todo))

\* L.FeatureGroup.addLayer on the layer of container c
groupAddLayer(m, c, x) ==
    IF x \in m.kids[c] THEN m
    ELSE LET m1 == [m EXCEPT !.kids[c] = @ \cup {x}] IN
         IF c \in m1.onMap THEN mapAddLayer(m1, x) ELSE m1

\* L.FeatureGroup.removeLayer on the layer of container c
groupRemoveLayer(m, c, x) ==
    IF x \notin m.kids[c] THEN m
    ELSE LET m1 == IF c \in m.onMap THEN mapRemoveLayer(m, x) ELSE m
         IN [m1 EXCEPT !.kids[c] = @ \ {x}]

(***************************************************************************)
(* mapViewer: parents                                                      *)
(***************************************************************************)
parentOf(m, kind, x) ==
    IF kind = "point" THEN m.point[x].parent
    ELSE IF kind = "layerGroup" THEN m.layerGroup[x].parent
    ELSE m.controlGroup[x].parent

setParent(m, kind, x, r) ==
    IF kind = "point" THEN [m EXCEPT !.point[x].parent = r]
    ELSE IF kind = "layerGroup" THEN [m EXCEPT !.layerGroup[x].parent = r]
    ELSE [m EXCEPT !.controlGroup[x].parent = r]

\* deriveParent throws INVALID_MODEL_OBJECT for a visual that has none of the fields
\* vertex, spatialGroup, temporalGroup: of the four visuals that is the line
deriveParentThrows(kind) == kind \notin {"point", "layerGroup", "controlGroup"}

\* faulty variant: a recorded parent is returned as long as there is one
deriveParent_Recorded(m, kind, x) ==
    IF Truthy(parentOf(m, kind, x)) THEN parentOf(m, kind, x)
    ELSE IF kind = "point"
    THEN IF m.layerGroup[vSG[x]] # NoVisual THEN Live(vSG[x]) ELSE Undef
    ELSE LET sup == IF kind = "layerGroup" THEN sgSuper[x] ELSE tgSuper(x) IN
         IF sup # None
         THEN IF m.controlGroup[sup] # NoVisual THEN Live(sup) ELSE Undef
         ELSE Null

\* mapViewer.deriveParent
deriveParent(m, kind, x) ==
    IF kind = "point"
    THEN IF m.layerGroup[vSG[x]] # NoVisual THEN Live(vSG[x]) ELSE Undef
    ELSE LET sup == IF kind = "layerGroup" THEN sgSuper[x] ELSE tgSuper(x) IN
         IF sup # None
         THEN IF m.controlGroup[sup] # NoVisual THEN Live(sup) ELSE Undef
         ELSE Null

\* mapViewer.addToDerivedParent
addToDerivedParent(m, kind, x) ==
    LET p == deriveParent(m, kind, x)
        m1 == setParent(m, kind, x, p)
        m2 == IF Truthy(p) THEN groupAddLayer(m1, p.of, x) ELSE mapAddLayer(m1, x)
    IN IF kind = "controlGroup"
       THEN IF Truthy(p)
            THEN [m2 EXCEPT !.controlGroup[p.of].children = Append(@, x)]
            ELSE [m2 EXCEPT !.overlayTree = Append(@, x)]
       ELSE m2

\* mapViewer.removeFromParentControlGroup; the children of a deleted control group
\* are not kept
removeFromParentControlGroup(m, t) ==
    LET p == m.controlGroup[t].parent
        m1 == IF Truthy(p)
              THEN IF p.k = "live"
                   THEN [m EXCEPT !.controlGroup[p.of].children = RemoveFirst(@, t)]
                   ELSE m
              ELSE [m EXCEPT !.overlayTree = RemoveFirst(@, t)]
    IN [m1 EXCEPT !.controlGroup[t].parent = Null]

\* mapViewer.removeFromParent; the layer of a deleted container is off the map for
\* good, so leaving it changes nothing that can be seen
removeFromParent(m, kind, x) ==
    LET p == parentOf(m, kind, x)
        m1 == IF p.k = "live" THEN groupRemoveLayer(m, p.of, x) ELSE m
        m2 == IF kind = "controlGroup" THEN removeFromParentControlGroup(m1, x) ELSE m1
    IN setParent(m2, kind, x, Null)

\* the visual of container x is dropped by its model entity: whoever still holds it
\* holds a deleted visual
dropContainer(m, x) ==
    [m EXCEPT
       !.point = [v \in V |->
                    IF @[v] # NoVisual /\ @[v].parent = Live(x)
                    THEN [@[v] EXCEPT !.parent = Dead(x)] ELSE @[v]],
       !.layerGroup = [g \in MSG |->
                    IF @[g] # NoVisual /\ @[g].parent = Live(x)
                    THEN [@[g] EXCEPT !.parent = Dead(x)] ELSE @[g]],
       !.controlGroup = [t \in TG |->
                    IF @[t] # NoVisual /\ @[t].parent = Live(x)
                    THEN [@[t] EXCEPT !.parent = Dead(x)] ELSE @[t]],
       !.kids[x] = {}]

(***************************************************************************)
(* mapViewer: operations                                                   *)
(***************************************************************************)
\* mapViewer.createControlGroup
createControlGroup(m, t) ==
    IF m.controlGroup[t] # NoVisual THEN m
    ELSE LET m1 == [m EXCEPT !.controlGroup[t] = [parent |-> Undef, children |-> <<>>]]
             m2 == addToDerivedParent(m1, "controlGroup", t)
             m3 == [m2 EXCEPT !.layers = @ \cup {t}]
         IN emit(m3, "controlGroup", t, "create")

\* mapViewer.createLayerGroup
createLayerGroup(m, g) ==
    IF m.layerGroup[g] # NoVisual THEN m
    ELSE LET m1 == [m EXCEPT !.layerGroup[g] = [parent |-> Undef],
                             !.layers = @ \cup {g}]
         IN emit(m1, "layerGroup", g, "create")

\* mapViewer.createPoint
createPoint(m, v) ==
    IF m.point[v] # NoVisual THEN m
    ELSE LET m1 == [m EXCEPT !.point[v] = [parent |-> Undef],
                             !.stamps = Append(@, v),
                             !.pCoord[v] = coordsToLatLng(vCoord[v])]
             m2 == addToDerivedParent(m1, "point", v)
             m3 == [m2 EXCEPT !.layers = @ \cup {v}]
         IN emit(m3, "point", v, "create")

\* faulty variant: the visual is built again although the edge has one
createLine_Again(m, e) ==
    LET m1 == [m EXCEPT !.line[e] = e, !.layers = @ \cup {e},
                        !.lCoord[e] = coordsToLatLngs(<<vCoord[EFrom(e)], vCoord[ETo(e)]>>)]
    IN emit(m1, "line", e, "create")

\* mapViewer.createLine
createLine(m, e) ==
    IF m.line[e] # None THEN m
    ELSE LET m1 == [m EXCEPT !.line[e] = e,
                             !.lCoord[e] = coordsToLatLngs(<<vCoord[EFrom(e)],
                                                             vCoord[ETo(e)]>>)]
             m2 == IF opposite[e] # None THEN [m1 EXCEPT !.line[opposite[e]] = e]
                   ELSE m1
             m3 == [m2 EXCEPT !.layers = @ \cup {e}]
             m4 == IF /\ m3.point[EFrom(e)] # NoVisual /\ m3.point[ETo(e)] # NoVisual
                      /\ isVisible(m3, EFrom(e)) /\ isVisible(m3, ETo(e))
                   THEN [m3 EXCEPT !.lineGroup = @ \cup {e}]
                   ELSE m3
         IN emit(m4, "line", e, "create")

\* mapViewer.showLayerGroup
showLayerGroup(m, g) ==
    LET m1 == IF m.layerGroup[g] = NoVisual THEN createLayerGroup(m, g) ELSE m
    IN addToDerivedParent(m1, "layerGroup", g)

\* faulty variant: hiding also forgets the layer in the lookup
hideLayerGroup_Forgets(m, g) ==
    IF m.layerGroup[g] = NoVisual THEN m
    ELSE [removeFromParent(m, "layerGroup", g) EXCEPT !.layers = @ \ {g}]

\* mapViewer.hideLayerGroup
hideLayerGroup(m, g) ==
    IF m.layerGroup[g] = NoVisual THEN m ELSE removeFromParent(m, "layerGroup", g)

\* faulty variant: the visual is attached to its derived parent without leaving the
\* recorded one
updateParent_NoDetach(m, kind, x) ==
    IF parentOf(m, kind, x) = deriveParent(m, kind, x) THEN m
    ELSE LET m1 == emit(m, kind, x, "startUpdate")
             m2 == addToDerivedParent(m1, kind, x)
         IN emit(m2, kind, x, "endUpdate")

\* mapViewer.updateParent
updateParent(m, kind, x) ==
    IF parentOf(m, kind, x) = deriveParent(m, kind, x) THEN m
    ELSE LET m1 == emit(m, kind, x, "startUpdate")
             m2 == removeFromParent(m1, kind, x)
             m3 == addToDerivedParent(m2, kind, x)
         IN emit(m3, kind, x, "endUpdate")

\* mapViewer.updateLineCoordinates; e.from.point / e.to.point are dereferenced
\* without a test, which throws a TypeError when an endpoint has no point
updateLineCoordinates(m, e) ==
    IF m.line[e] = None THEN m
    ELSE IF m.point[EFrom(e)] = NoVisual \/ m.point[ETo(e)] = NoVisual
         THEN [m EXCEPT !.threw = TRUE]
         ELSE LET l == m.line[e]
                  targetCoords == <<latLngToCoords(m.pCoord[EFrom(e)]),
                                    latLngToCoords(m.pCoord[ETo(e)])>>
              IN IF ~recursiveCompare(latLngsToCoords(m.lCoord[l]), targetCoords)
                 THEN [m EXCEPT !.lCoord[l] = coordsToLatLngs(targetCoords),
                                !.writes = Append(@, [fn |-> "setLatLngs", ids |-> l])]
                 ELSE m

\* v.forEach(e => this.updateLineCoordinates(e)); an exception ends the loop
RECURSIVE updateLines(_, _)
updateLines(m, todo) ==
    IF todo = <<>> \/ m.threw THEN m
    ELSE updateLines(updateLineCoordinates(m, Head(todo)), Tail(todo))

\* faulty variant: the coordinates are written without comparing them first
updatePointCoordinates_NoCompare(m, v) ==
    IF m.point[v] = NoVisual THEN m
    ELSE LET m1 == emit(m, "point", v, "startUpdate(coordinates)")
             m2 == [m1 EXCEPT !.pCoord[v] = coordsToLatLng(vCoord[v]),
                              !.writes = Append(@, [fn |-> "setLatLng", ids |-> v])]
             m3 == emit(m2, "point", v, "endUpdate(coordinates)")
         IN updateLines(m3, outEdges(v))

\* mapViewer.updatePointCoordinates
updatePointCoordinates(m, v) ==
    IF m.point[v] = NoVisual THEN m
    ELSE LET coordinates == latLngToCoords(m.pCoord[v]) IN
         IF ~recursiveCompare(vCoord[v], coordinates)
         THEN LET m1 == emit(m, "point", v, "startUpdate(coordinates)")
                  m2 == [m1 EXCEPT !.pCoord[v] = coordsToLatLng(vCoord[v]),
                                   !.writes = Append(@, [fn |-> "setLatLng", ids |-> v])]
                  m3 == emit(m2, "point", v, "endUpdate(coordinates)")
              IN updateLines(m3, outEdges(v))
         ELSE m

\* faulty variant: the reference of the opposite edge is left in place
deleteLine_KeepOpposite(m, e) ==
    IF m.line[e] = None THEN m
    ELSE LET l == m.line[e]
             m1 == [m EXCEPT !.lineGroup = @ \ {l}, !.layers = @ \ {l}, !.line[e] = None,
                             !.lCoord[l] = <<>>]
         IN emit(m1, "line", l, "delete")

\* mapViewer.deleteLine
deleteLine(m, e) ==
    IF m.line[e] = None THEN m
    ELSE LET l == m.line[e]
             m1 == [m EXCEPT !.lineGroup = @ \ {l}, !.layers = @ \ {l}, !.lCoord[l] = <<>>]
             m2 == [m1 EXCEPT !.line[e] = None]
             m3 == IF opposite[e] # None THEN [m2 EXCEPT !.line[opposite[e]] = None]
                   ELSE m2
         IN emit(m3, "line", l, "delete")

RECURSIVE deleteLines(_, _)
deleteLines(m, todo) ==
    IF todo = <<>> THEN m ELSE deleteLines(deleteLine(m, Head(todo)), Tail(todo))

\* mapViewer.deletePoint
deletePoint(m, v) ==
    IF m.point[v] = NoVisual THEN m
    ELSE LET m1 == deleteLines(m, outEdges(v))
             m2 == removeFromParent(m1, "point", v)
             m3 == mapRemoveLayer(m2, v)
             m4 == [m3 EXCEPT !.layers = @ \ {v}, !.stamps = Without(@, v),
                              !.point[v] = NoVisual, !.pCoord[v] = NoVisual]
         IN emit(m4, "point", v, "delete")

\* mapViewer.deleteLayerGroup
deleteLayerGroup(m, g) ==
    IF m.layerGroup[g] = NoVisual THEN m
    ELSE LET m1 == removeFromParent(m, "layerGroup", g)
             m2 == mapRemoveLayer(m1, g)
             m3 == [m2 EXCEPT !.layers = @ \ {g}]
             m4 == [dropContainer(m3, g) EXCEPT !.layerGroup[g] = NoVisual]
         IN emit(m4, "layerGroup", g, "delete")

\* faulty variant: DELETE is emitted although the control group does not exist
deleteControlGroup_AlwaysEmits(m, t) ==
    IF m.controlGroup[t] = NoVisual THEN emit(m, "controlGroup", t, "delete")
    ELSE LET m1 == removeFromParent(m, "controlGroup", t)
             m2 == mapRemoveLayer(m1, t)
             m3 == [m2 EXCEPT !.layers = @ \ {t}]
             m4 == [dropContainer(m3, t) EXCEPT !.controlGroup[t] = NoVisual]
         IN emit(m4, "controlGroup", t, "delete")

\* mapViewer.deleteControlGroup
deleteControlGroup(m, t) ==
    IF m.controlGroup[t] = NoVisual THEN m
    ELSE LET m1 == removeFromParent(m, "controlGroup", t)
             m2 == mapRemoveLayer(m1, t)
             m3 == [m2 EXCEPT !.layers = @ \ {t}]
             m4 == [dropContainer(m3, t) EXCEPT !.controlGroup[t] = NoVisual]
         IN emit(m4, "controlGroup", t, "delete")

(***************************************************************************)
(* algorithms: tour files.  A tour file declares temporal groups (each     *)
(* with nested spatial groups), spatial groups (each with nested           *)
(* vertices), vertices (each with outgoing edges) and the paths of child   *)
(* tours.  The graph model's create methods throw for a malformed          *)
(* declaration.                                                            *)
(***************************************************************************)
Tours == {"R", "A", "B"}
ImpT == {"T1", "T2", "TA", "TB"}          \* declared temporal groups
ImpS == {"S1", "S2", "SA", "SB"}          \* declared spatial groups
ImpV == {"V1", "V2"}                      \* declared vertices
ImpE == {"E1", "E2"}                      \* declared edges
Declared == ImpT \cup ImpS \cup ImpV \cup ImpE

\* tour.tours: absent, or a list of paths
NoTours == [present |-> FALSE, list |-> <<>>]
TourList(l) == [present |-> TRUE, list |-> l]

\* model.createTemporalGroup / createSpatialGroup / createVertex / createEdge throw
createThrows(d) == d \in json.bad

\* the import before it starts
ImpIdle == [attempts |-> <<>>,     \* the declarations handed to a create call, in order
            logged |-> <<>>,       \* the declarations whose error was logged, in order
            loads |-> <<>>,        \* the tours loadGraph was called for, in order
            emitted |-> <<>>,      \* the values the observable of the root tour emitted
            called |-> {},         \* the tours readTour was called for
            subscribed |-> {},     \* the tours whose observable has been subscribed to
            searching |-> {},      \* child tours whose searchFile is pending
            reading |-> {},        \* child tours whose readAsJSON is pending
            own |-> [x \in Tours |-> TRUE]]   \* successful of each readTour call

\* try { create(d) ... } catch (err) { logger.log(err); successful = false }
attempt(a, d) ==
    IF createThrows(d)
    THEN [a EXCEPT !.attempts = Append(@, d), !.logged = Append(@, d),
                   !.successful = FALSE]
    ELSE [a EXCEPT !.attempts = Append(@, d)]

\* faulty variant: the first failing temporal group ends the loop
RECURSIVE loadTemporalGroups_Abort(_, _)
loadTemporalGroups_Abort(a, todo) ==
    IF todo = <<>> THEN a
    ELSE LET a1 == attempt(a, Head(todo)) IN
         IF createThrows(Head(todo)) THEN a1
         ELSE loadTemporalGroups_Abort(
                  [a1 EXCEPT !.spatialGroups = @ \o json.subGroups[Head(todo)]],
                  Tail(todo))

\* loadGraph, first loop: the temporal groups; the nested spatial groups of a created
\* group are appended to the spatial groups
RECURSIVE loadTemporalGroups(_, _)
loadTemporalGroups(a, todo) ==
    IF todo = <<>> THEN a
    ELSE LET a1 == attempt(a, Head(todo))
             a2 == IF createThrows(Head(todo)) THEN a1
                   ELSE [a1 EXCEPT !.spatialGroups = @ \o json.subGroups[Head(todo)]]
         IN loadTemporalGroups(a2, Tail(todo))

\* second loop: the spatial groups
RECURSIVE loadSpatialGroups(_, _)
loadSpatialGroups(a, todo) ==
    IF todo = <<>> THEN a
    ELSE LET a1 == attempt(a, Head(todo))
             a2 == IF createThrows(Head(todo)) THEN a1
                   ELSE [a1 EXCEPT !.vertices = @ \o json.groupVertices[Head(todo)]]
         IN loadSpatialGroups(a2, Tail(todo))

\* third loop: the vertices
RECURSIVE loadVertices(_, _)
loadVertices(a, todo) ==
    IF todo = <<>> THEN a
    ELSE LET a1 == attempt(a, Head(todo))
             a2 == IF createThrows(Head(todo)) THEN a1
                   ELSE [a1 EXCEPT !.edges = @ \o json.outgoingEdges[Head(todo)]]
         IN loadVertices(a2, Tail(todo))

\* fourth loop: the edges
RECURSIVE loadEdges(_, _)
loadEdges(a, todo) ==
    IF todo = <<>> THEN a ELSE loadEdges(attempt(a, Head(todo)), Tail(todo))

\* algorithms.loadGraph(tour): the import record after the call, with the returned
\* flag in the field successful
loadGraph(i, x) ==
    LET a0 == [attempts |-> i.attempts, logged |-> i.logged, successful |-> TRUE,
               spatialGroups |-> json.spatialGroups[x], vertices |-> json.vertices[x],
               edges |-> <<>>]
        a1 == loadTemporalGroups(a0, json.temporalGroups[x])
        a2 == loadSpatialGroups(a1, a1.spatialGroups)
        a3 == loadVertices(a2, a2.vertices)
    IN loadEdges(a3, a3.edges)

\* the tour that lists x among its tours, if any
ParentTour(x) ==
    IF \E y \in Tours : json.tours[y].present /\ Has(json.tours[y].list, x)
    THEN CHOOSE y \in Tours : json.tours[y].present /\ Has(json.tours[y].list, x)
    ELSE None

\* readTour, the first loop: the temporal groups of the tour are created
RECURSIVE readTemporalGroups(_, _)
readTemporalGroups(a, todo) ==
    IF todo = <<>> THEN a ELSE readTemporalGroups(attempt(a, Head(todo)), Tail(todo))

\* the synchronous part of readTour(tour x): the loop, and the observable is built
callTour(i, x) ==
    LET a == readTemporalGroups([attempts |-> i.attempts, logged |-> i.logged,
                                 successful |-> TRUE], json.temporalGroups[x])
    IN [i EXCEPT !.attempts = a.attempts, !.logged = a.logged,
                 !.own[x] = a.successful, !.called = @ \cup {x}]

\* other.map(successful => successful && this.loadGraph(tour, rootFolder)) receives a
\* value: the result is emitted by the observable readTour(x) returned, which for a
\* child tour is merged into the parent's observable and reaches the parent's map
RECURSIVE mapAndEmit(_, _, _)
mapAndEmit(i, x, successful) ==
    LET r == loadGraph(i, x)
        value == IF successful THEN r.successful ELSE FALSE
        i1 == IF successful
              THEN [i EXCEPT !.attempts = r.attempts, !.logged = r.logged,
                             !.loads = Append(@, x)]
              ELSE i
    IN IF ParentTour(x) = None THEN [i1 EXCEPT !.emitted = Append(@, value)]
       ELSE mapAndEmit(i1, ParentTour(x), value)

\* the observable readTour(x) returned is subscribed to: without tour.tours the value
\* of the loop is emitted at once; otherwise searchFile starts for every listed path
subscribeTour(i, x) ==
    LET i1 == [i EXCEPT !.subscribed = @ \cup {x}] IN
    IF json.tours[x].present
    THEN [i1 EXCEPT !.searching = @ \cup Range(json.tours[x].list)]
    ELSE mapAndEmit(i1, x, i1.own[x])

(***************************************************************************)
(* filesystem: links between vertices and image files.  Besides the        *)
(* vertices there is a background b1, which has an image as well; the      *)
(* path of a file stands for the file.                                     *)
(***************************************************************************)
Backgrounds == {"b1"}
Files == {"f1", "f2"}
Linkable == V \cup Backgrounds

FState == [imageFile |-> imageFile, fileVertex |-> fileVertex, background |-> background,
           usedFiles |-> usedFiles, events |-> <<>>, threw |-> "no"]

FCommit(s) ==
    /\ imageFile' = s.imageFile
    /\ fileVertex' = s.fileVertex
    /\ background' = s.background
    /\ usedFiles' = s.usedFiles
    /\ events' = s.events

\* filesystem.link(v, f); this.unlinkFile is not a method of the filesystem, so the
\* call for a vertex that is linked to another file throws a TypeError
link(s, v, f) ==
    IF s.imageFile[v] = f
    THEN LET s1 == IF v \in Backgrounds THEN [s EXCEPT !.background[v] = f]
                   ELSE [s EXCEPT !.fileVertex[f] = v]
         IN [s1 EXCEPT !.usedFiles = @ \cup {f}]
    ELSE IF s.imageFile[v] # None THEN [s EXCEPT !.threw = "TypeError"]
    ELSE LET s1 == [s EXCEPT !.imageFile[v] = f]
             s2 == IF v \in Backgrounds THEN [s1 EXCEPT !.background[v] = f]
                   ELSE [s1 EXCEPT !.fileVertex[f] = v]
             s3 == [s2 EXCEPT !.usedFiles = @ \cup {f}]
         IN [s3 EXCEPT !.events = Append(@, Ev("vertex", v, "link file"))]

\* filesystem.unlink(v); f is not declared in the method, so f.getPath() throws a
\* ReferenceError before anything is deleted
unlink(s, v) ==
    IF s.imageFile[v] = None THEN s
    ELSE IF s.fileVertex[s.imageFile[v]] = v THEN [s EXCEPT !.threw = "ReferenceError"]
    ELSE LET s1 == [s EXCEPT !.imageFile[v] = None]
         IN [s1 EXCEPT !.events = Append(@, Ev("vertex", v, "unlink file"))]

(***************************************************************************)
(* filesystem: a webkitdirectory.  An entry is a file or a directory with  *)
(* a name; obj tells the entry objects of one name apart, handle is the    *)
(* fileHandle or directoryHandle it carries and file its File, if any.     *)
(* A scan is the observable one call of scan() returned: what kind it is,  *)
(* how far it got and which entries it has emitted.  Each of them is       *)
(* subscribed at most once.                                                *)
(***************************************************************************)
DirNames == {"a", "b"}
NoEntry == [absent |-> TRUE]

DState == [files |-> dirFiles, directories |-> dirDirs, directoryHandle |-> dirHandle,
           loading |-> loading, scanned |-> scanned, scans |-> scans,
           events |-> <<>>, ret |-> FALSE]

DCommit(d) ==
    /\ dirFiles' = d.files
    /\ dirDirs' = d.directories
    /\ dirHandle' = d.directoryHandle
    /\ loading' = d.loading
    /\ scanned' = d.scanned
    /\ scans' = d.scans
    /\ events' = d.events
    /\ UNCHANGED listing

\* webkitdirectory.getEntries, as the kinds and names of the stored entries
getEntries(d) ==
    {<<"file", n>> : n \in {m \in DirNames : d.files[m] # NoEntry}}
    \cup {<<"directory", n>> : n \in {m \in DirNames : d.directories[m] # NoEntry}}

\* faulty variant of addEntry: a later entry of a stored name replaces the stored one
addEntry_Replace(d, entry) ==
    IF entry.kind = "file"
    THEN [d EXCEPT !.files[entry.name] = [obj |-> entry.obj, fileHandle |-> entry.handle,
                                          file |-> entry.file, parent |-> "this"],
                   !.ret = (d.files[entry.name] = NoEntry),
                   !.events = IF d.files[entry.name] = NoEntry
                              THEN Append(@, Ev("file", entry.name, "create")) ELSE @]
    ELSE IF entry.kind = "directory"
    THEN [d EXCEPT !.directories[entry.name] = [obj |-> entry.obj,
                                                directoryHandle |-> entry.handle,
                                                parent |-> "this"],
                   !.ret = (d.directories[entry.name] = NoEntry),
                   !.events = IF d.directories[entry.name] = NoEntry
                              THEN Append(@, Ev("directory", entry.name, "create")) ELSE @]
    ELSE [d EXCEPT !.ret = FALSE]

\* webkitdirectory.addEntry(entry); ret is what it returns
addEntry(d, entry) ==
    IF entry.kind = "file"
    THEN IF d.files[entry.name] = NoEntry
         THEN [d EXCEPT !.files[entry.name] = [obj |-> entry.obj, fileHandle |-> entry.handle,
                                               file |-> entry.file, parent |-> "this"],
                        !.events = Append(@, Ev("file", entry.name, "create")),
                        !.ret = TRUE]
         ELSE LET f == d.files[entry.name]
                  f1 == IF entry.handle # None
                        THEN [f EXCEPT !.fileHandle = entry.handle, !.file = None] ELSE f
                  f2 == IF entry.file # None THEN [f1 EXCEPT !.file = entry.file] ELSE f1
              IN [d EXCEPT !.files[entry.name] = f2, !.ret = FALSE]
    ELSE IF entry.kind = "directory"
    THEN IF d.directories[entry.name] = NoEntry
         THEN [d EXCEPT !.directories[entry.name] = [obj |-> entry.obj,
                                                     directoryHandle |-> entry.handle,
                                                     parent |-> "this"],
                        !.events = Append(@, Ev("directory", entry.name, "create")),
                        !.ret = TRUE]
         ELSE IF entry.handle # None
              THEN [d EXCEPT !.directories[entry.name].directoryHandle = entry.handle,
                             !.ret = FALSE]
              ELSE [d EXCEPT !.ret = FALSE]
    ELSE [d EXCEPT !.ret = FALSE]

\* the entry objects the k-th scan builds, and the handles the reader gives them
ScanObj(k) == <<"s1", "s2", "s3">>[k]
ScanHandle(k) == <<"h1", "h2", "h3">>[k]

\* new webkitfile(e) and new webkitdirectory(e.name, e) for an entry e of the reader
readerEntry(k, e) ==
    [kind |-> e.kind, name |-> e.name, obj |-> ScanObj(k), handle |-> ScanHandle(k),
     file |-> None]

\* webkitdirectory.scan(options); the observable it returns is appended to scans
scan(d, enforce) ==
    LET cached == [kind |-> "cached", status |-> "cold", pos |-> 0, out |-> {},
                   cache |-> getEntries(d)]
        waiting == [kind |-> "waiting", status |-> "open", pos |-> 0, out |-> {},
                    cache |-> {}]
        reader == [kind |-> "reader", status |-> "cold", pos |-> 0, out |-> {},
                   cache |-> {}]
    IN IF d.scanned /\ ~enforce THEN [d EXCEPT !.scans = Append(@, cached)]
       ELSE IF ~d.directoryHandle
       THEN [d EXCEPT !.scans = Append(@, cached),
                      !.events = Append(@, Ev("error", "NO_DIRECTORY_HANDLE", "error"))]
       ELSE IF d.loading THEN [d EXCEPT !.scans = Append(@, waiting)]
       ELSE [d EXCEPT !.loading = TRUE, !.scans = Append(@, reader)]

\* subscribing to the k-th observable: a cached one emits the entries it was built
\* from and completes, a reader one starts to read
subscribeScan(d, k) ==
    IF d.scans[k].kind = "cached"
    THEN [d EXCEPT !.scans[k].out = d.scans[k].cache, !.scans[k].status = "completed"]
    ELSE [d EXCEPT !.scans[k].status = "running"]

\* the entries.forEach of the success callback of readEntries
RECURSIVE readBatch(_, _, _)
readBatch(d, k, batch) ==
    IF batch = <<>> THEN d
    ELSE LET e == Head(batch)
             r == addEntry(d, readerEntry(k, e))
             r1 == IF r.ret THEN [r EXCEPT !.scans[k].out = @ \cup {<<e.kind, e.name>>}]
                   ELSE r
         IN readBatch(r1, k, Tail(batch))

\* loadingCompleted.complete(): every scan that waits for the load emits the entries
\* of the directory and completes
completeLoading(d) ==
    [d EXCEPT !.scans = [i \in DOMAIN d.scans |->
        IF d.scans[i].kind = "waiting" /\ d.scans[i].status = "open"
        THEN [d.scans[i] EXCEPT !.out = getEntries(d), !.status = "completed"]
        ELSE d.scans[i]]]

\* the success callback of reader.readEntries for the k-th scan
readEntries(d, k, batch) ==
    LET d1 == readBatch(d, k, batch)
    IN IF batch # <<>> THEN [d1 EXCEPT !.scans[k].pos = @ + 1]
       ELSE LET d2 == IF d1.loading
                      THEN completeLoading([d1 EXCEPT !.scanned = TRUE, !.loading = FALSE])
                      ELSE d1
            IN [d2 EXCEPT !.scans[k].status = "completed"]

\* the error callback of reader.readEntries for the k-th scan
readError(d, k) == [d EXCEPT !.scans[k].status = "errored"]

(***************************************************************************)
(* filesystem: the accessors.  Each keeps the subject of its last request   *)
(* in this.targetSubject.                                                  *)
(***************************************************************************)
Accessors == {"disk", "tree", "cordova", "electron"}
NewSubject == [state |-> "open", received |-> <<>>]

AState == [targetSubject |-> targetSubject, subjects |-> subjects, pickers |-> pickers,
           threw |-> "no"]

ACommit(s) ==
    /\ targetSubject' = s.targetSubject
    /\ subjects' = s.subjects
    /\ pickers' = s.pickers

\* Rx.Subject: next, complete and error act on an open subject only
subjectNext(s, a, j, x) ==
    IF s.subjects[a][j].state = "open"
    THEN [s EXCEPT !.subjects[a][j].received = Append(@, x)] ELSE s

subjectComplete(s, a, j) ==
    IF s.subjects[a][j].state = "open"
    THEN [s EXCEPT !.subjects[a][j].state = "completed"] ELSE s

subjectError(s, a, j) ==
    IF s.subjects[a][j].state = "open"
    THEN [s EXCEPT !.subjects[a][j].state = "errored"] ELSE s

RECURSIVE subjectNextAll(_, _, _, _)
subjectNextAll(s, a, j, xs) ==
    IF xs = <<>> THEN s
    ELSE subjectNextAll(subjectNext(s, a, j, Head(xs)), a, j, Tail(xs))

\* faulty variant of request: the subject of the earlier request stays open
request_KeepEarlier(s, a, api) ==
    LET j == Len(s.subjects[a]) + 1
        s2 == [s EXCEPT !.subjects[a] = Append(@, NewSubject), !.targetSubject[a] = j]
    IN IF a = "cordova" THEN [s2 EXCEPT !.pickers[a] = @ \cup {j}]
       ELSE IF a = "electron"
       THEN IF api THEN [s2 EXCEPT !.pickers[a] = @ \cup {j}]
            ELSE [s2 EXCEPT !.threw = "TypeError"]
       ELSE s2

\* request(options) of the accessor a.  The cordova accessor opens a native picker;
\* the electron accessor registers a listener for the response if window.api is there
\* (api) and else calls this.targetSubject.throw, which a subject does not have.
request(s, a, api) ==
    LET s1 == IF s.targetSubject[a] # 0 THEN subjectComplete(s, a, s.targetSubject[a])
              ELSE s
        j == Len(s1.subjects[a]) + 1
        s2 == [s1 EXCEPT !.subjects[a] = Append(@, NewSubject), !.targetSubject[a] = j]
    IN IF a = "cordova" THEN [s2 EXCEPT !.pickers[a] = @ \cup {j}]
       ELSE IF a = "electron"
       THEN IF api THEN [s2 EXCEPT !.pickers[a] = @ \cup {j}]
            ELSE [s2 EXCEPT !.threw = "TypeError"]
       ELSE s2

\* diskAccessor: a file input changes or something is dropped
fileEvent(s) ==
    LET j == s.targetSubject["disk"]
    IN subjectComplete(subjectNext(s, "disk", j, "event"), "disk", j)

\* the nodes of the file tree in the order of the tree, and the entry of each; the
\* node n0 has no entry
TreeNodes == <<"n0", "n1", "n2">>
nodeIdToEntry(n) == IF n = "n1" THEN "a" ELSE IF n = "n2" THEN "b" ELSE None

RECURSIVE selectedEntries(_, _)
selectedEntries(nodes, selected) ==
    IF nodes = <<>> THEN <<>>
    ELSE LET rest == selectedEntries(Tail(nodes), selected)
         IN IF Head(nodes) \in selected /\ nodeIdToEntry(Head(nodes)) # None
            THEN <<nodeIdToEntry(Head(nodes))>> \o rest ELSE rest

\* fileTree.confirmSelection() while the nodes of selected are selected
confirmSelection(s, selected) ==
    LET j == s.targetSubject["tree"]
    IN IF j # 0
       THEN LET s1 == subjectNextAll(s, "tree", j, selectedEntries(TreeNodes, selected))
                s2 == subjectComplete(s1, "tree", j)
            IN [s2 EXCEPT !.targetSubject["tree"] = 0]
       ELSE s

\* cordovaAccessor: the picker of the request p reports paths, or an error; both
\* callbacks address this.targetSubject as it is when they run
pickerSuccess(s, p, paths) ==
    LET j == s.targetSubject["cordova"]
        s1 == subjectComplete(subjectNextAll(s, "cordova", j, paths), "cordova", j)
    IN [s1 EXCEPT !.pickers["cordova"] = @ \ {p}]

pickerError(s, p) ==
    LET s1 == subjectError(s, "cordova", s.targetSubject["cordova"])
    IN [s1 EXCEPT !.pickers["cordova"] = @ \ {p}]

\* electronAccessor: the listener of the request p receives the response; it passes the
\* keys of paths to the subject of that request
fsResponse(s, p, paths) ==
    LET keys == [i \in DOMAIN paths |-> <<"0", "1">>[i]]
    IN subjectComplete(subjectNextAll(s, "electron", p, keys), "electron", p)

(***************************************************************************)
(* Bounds                                                                  *)
(***************************************************************************)
MaxSel == 2        \* longest selection list the settings announce
MaxSlot == 3       \* timeslots are drawn from 0..MaxSlot, in units of SlotLen
MaxCoord == 1      \* a vertex lies at one of the positions <<k, MaxCoord - k>>, k in 0..MaxCoord
SlotLen == 40      \* length of one timeslot unit
MaxScans == 3      \* scan() is called at most this often on the directory
MaxRequests == 3   \* request() is called at most this often, all accessors taken together

(***************************************************************************)
(* Actions of the timeline viewer                                          *)
(***************************************************************************)
\* nothing outside the timeline viewer changes
MapUnchanged == UNCHANGED <<mapVars, imVars, fsVars>>
ModelUnchanged == UNCHANGED <<sgSuper, multiselect, timeslot>>

TLCreateItem(g) ==
    /\ sgSuper[g] # None
    /\ TLCommit(createItem(TLState, g))
    /\ op' = [name |-> "createItem", arg |-> g]
    /\ result' = IF g \in items THEN g ELSE "undefined"
    /\ UNCHANGED <<settingsSel, aggregate, win>>
    /\ ModelUnchanged /\ MapUnchanged

TLDeleteItem(g) ==
    /\ sgSuper[g] # None
    /\ TLCommit(deleteItem(TLState, g))
    /\ op' = [name |-> "deleteItem", arg |-> g]
    /\ result' = "undefined"
    /\ UNCHANGED <<settingsSel, aggregate, win>>
    /\ ModelUnchanged /\ MapUnchanged

\* the widget reports a click on shown items (the 'select' event with prop.items = ids)
TLSelect(ids) ==
    /\ Range(ids) \subseteq {el.first : el \in rendered}
    /\ TLCommit(onSelect(TLState, ids))
    /\ op' = [name |-> "select", arg |-> ids]
    /\ result' = "undefined"
    /\ UNCHANGED <<settingsSel, aggregate, win>>
    /\ ModelUnchanged /\ MapUnchanged

\* the user clicks the shown element el, an item or a rangeItem: the widget reports
\* its id in the 'select' event
TLClick(el) ==
    /\ el \in rendered
    /\ TLCommit(onSelect(TLState, <<ElemId(el)>>))
    /\ op' = [name |-> "click", arg |-> ElemId(el)]
    /\ result' = "undefined"
    /\ UNCHANGED <<settingsSel, aggregate, win>>
    /\ ModelUnchanged /\ MapUnchanged

TLSelections(val) ==
    /\ settingsSel' = Range(val)
    /\ TLCommit(onSelections(TLState, val))
    /\ op' = [name |-> "selections", arg |-> val]
    /\ result' = "undefined"
    /\ UNCHANGED <<aggregate, win>>
    /\ ModelUnchanged /\ MapUnchanged

TLOnRemove(g) ==
    /\ \E el \in rendered : el.kind = "item" /\ el.first = g
    /\ sgItem[g]
    /\ TLCommit(onRemove(TLState, g))
    /\ op' = [name |-> "onRemove", arg |-> g]
    /\ result' = "undefined"
    /\ UNCHANGED <<settingsSel, aggregate, win>>
    /\ ModelUnchanged /\ MapUnchanged

\* timelineViewer.createGroup(g); a TypeError leaves the viewer as it was
TLCreateGroup(t) ==
    /\ IF createGroupThrows(TLState, t)
       THEN TLCommit(TLState) /\ result' = "TypeError"
       ELSE /\ TLCommit(createGroup(TLState, t))
            /\ result' = IF Has(groups, t) THEN t ELSE "undefined"
    /\ op' = [name |-> "createGroup", arg |-> t]
    /\ UNCHANGED <<settingsSel, aggregate, win>>
    /\ ModelUnchanged /\ MapUnchanged

TLDeleteGroup(t) ==
    /\ TLCommit(deleteGroup(TLState, t))
    /\ op' = [name |-> "deleteGroup", arg |-> t]
    /\ result' = "undefined"
    /\ UNCHANGED <<settingsSel, aggregate, win>>
    /\ ModelUnchanged /\ MapUnchanged

\* the graph moves spatial group g under temporal group t
TLMoveGroup(g, t) ==
    /\ sgSuper[g] # None /\ sgSuper[g] # t
    /\ sgSuper' = [sgSuper EXCEPT ![g] = t]
    /\ UNCHANGED <<multiselect, timeslot>>
    /\ UNCHANGED <<settingsSel, aggregate, win, items, itemGroup, sgItem, groups,
                   nestedGroups, tgGroup, selections, tlWidth, tlStart, tlEnd,
                   rendered, tlSelection>>
    /\ op' = [name |-> "moveGroup", arg |-> g]
    /\ events' = <<>> /\ seen' = <<>> /\ calls' = <<>>
    /\ result' = "undefined"
    /\ MapUnchanged

TLUpdateItem(g) ==
    /\ sgSuper[g] # None
    /\ sgItem[g]
    /\ TLCommit(updateItem(TLState, g))
    /\ op' = [name |-> "updateItem", arg |-> g]
    /\ result' = "undefined"
    /\ UNCHANGED <<settingsSel, aggregate, win>>
    /\ ModelUnchanged /\ MapUnchanged

\* settings.aggregateItems.subscribe(val => this.refreshItems(true))
TLAggregateItems(val) ==
    /\ val # aggregate
    /\ aggregate' = val
    /\ TLCommit(refreshItemsAt(TLState, TRUE, val, win))
    /\ op' = [name |-> "aggregateItems", arg |-> val]
    /\ result' = "undefined"
    /\ UNCHANGED <<settingsSel, win>>
    /\ ModelUnchanged /\ MapUnchanged

\* the widget's 'rangechanged' / 'currentTimeTick': the window is w, refreshItems()
TLRangeChanged(w) ==
    /\ win' = w
    /\ TLCommit(refreshItemsAt(TLState, FALSE, aggregate, w))
    /\ op' = [name |-> "refreshItems", arg |-> w]
    /\ result' = "undefined"
    /\ UNCHANGED <<settingsSel, aggregate>>
    /\ ModelUnchanged /\ MapUnchanged

(***************************************************************************)
(* Actions of the map viewer                                               *)
(***************************************************************************)
\* nothing outside the map viewer changes
TLUnchanged == UNCHANGED <<tlVars, imVars, fsVars>>
GraphUnchanged == UNCHANGED <<vSG, opposite, vCoord>>

MVCreateControlGroup(t) ==
    /\ MCommit(createControlGroup(MState, t))
    /\ op' = [name |-> "createControlGroup", arg |-> t]
    /\ result' = Vis("controlGroup", t)
    /\ calls' = <<>>
    /\ GraphUnchanged /\ TLUnchanged

MVCreateLayerGroup(g) ==
    /\ MCommit(createLayerGroup(MState, g))
    /\ op' = [name |-> "createLayerGroup", arg |-> g]
    /\ result' = Vis("layerGroup", g)
    /\ calls' = <<>>
    /\ GraphUnchanged /\ TLUnchanged

MVCreatePoint(v) ==
    /\ MCommit(createPoint(MState, v))
    /\ op' = [name |-> "createPoint", arg |-> v]
    /\ result' = Vis("point", v)
    /\ calls' = <<>>
    /\ GraphUnchanged /\ TLUnchanged

MVCreateLine(e) ==
    /\ MCommit(createLine(MState, e))
    /\ op' = [name |-> "createLine", arg |-> e]
    /\ result' = Vis("line", line'[e])
    /\ calls' = <<>>
    /\ GraphUnchanged /\ TLUnchanged

MVShowLayerGroup(g) ==
    /\ MCommit(showLayerGroup(MState, g))
    /\ op' = [name |-> "showLayerGroup", arg |-> g]
    /\ result' = Vis("layerGroup", g)
    /\ calls' = <<>>
    /\ GraphUnchanged /\ TLUnchanged

MVHideLayerGroup(g) ==
    /\ MCommit(hideLayerGroup(MState, g))
    /\ op' = [name |-> "hideLayerGroup", arg |-> g]
    /\ result' = IF layerGroup[g] = NoVisual THEN NoResult ELSE Vis("layerGroup", g)
    /\ calls' = <<>>
    /\ GraphUnchanged /\ TLUnchanged

\* updateParent(elem) for a vertex, a spatial group or a temporal group that has its
\* visual
MVUpdateParent(kind, x) ==
    /\ \/ kind = "point" /\ x \in V /\ point[x] # NoVisual
       \/ kind = "layerGroup" /\ x \in MSG /\ layerGroup[x] # NoVisual
       \/ kind = "controlGroup" /\ x \in TG /\ controlGroup[x] # NoVisual
    /\ MCommit(updateParent(MState, kind, x))
    /\ op' = [name |-> "updateParent", arg |-> x]
    /\ result' = Vis(kind, x)
    /\ calls' = <<>>
    /\ GraphUnchanged /\ TLUnchanged

\* updateParent(e) for an edge that has its line: deriveParent throws before anything
\* is changed
MVUpdateParentOfLine(e) ==
    /\ line[e] # None
    /\ deriveParentThrows("line")
    /\ MCommit(MState)
    /\ op' = [name |-> "updateParent", arg |-> e]
    /\ result' = Vis("INVALID_MODEL_OBJECT", e)
    /\ calls' = <<>>
    /\ GraphUnchanged /\ TLUnchanged

MVDeleteControlGroup(t) ==
    /\ MCommit(deleteControlGroup(MState, t))
    /\ op' = [name |-> "deleteControlGroup", arg |-> t]
    /\ result' = NoResult
    /\ calls' = <<>>
    /\ GraphUnchanged /\ TLUnchanged

MVDeleteLayerGroup(g) ==
    /\ MCommit(deleteLayerGroup(MState, g))
    /\ op' = [name |-> "deleteLayerGroup", arg |-> g]
    /\ result' = NoResult
    /\ calls' = <<>>
    /\ GraphUnchanged /\ TLUnchanged

MVDeletePoint(v) ==
    /\ MCommit(deletePoint(MState, v))
    /\ op' = [name |-> "deletePoint", arg |-> v]
    /\ result' = NoResult
    /\ calls' = <<>>
    /\ GraphUnchanged /\ TLUnchanged

MVDeleteLine(e) ==
    /\ MCommit(deleteLine(MState, e))
    /\ op' = [name |-> "deleteLine", arg |-> e]
    /\ result' = NoResult
    /\ calls' = <<>>
    /\ GraphUnchanged /\ TLUnchanged

MVUpdatePointCoordinates(v) ==
    LET r == updatePointCoordinates(MState, v) IN
    /\ MCommit(r)
    /\ op' = [name |-> "updatePointCoordinates", arg |-> v]
    /\ result' = IF r.threw THEN Vis("TypeError", v)
                 ELSE IF point[v] = NoVisual THEN NoResult ELSE Vis("point", v)
    /\ calls' = r.writes
    /\ GraphUnchanged /\ TLUnchanged

MVUpdateLineCoordinates(e) ==
    LET r == updateLineCoordinates(MState, e) IN
    /\ MCommit(r)
    /\ op' = [name |-> "updateLineCoordinates", arg |-> e]
    /\ result' = IF r.threw THEN Vis("TypeError", e)
                 ELSE IF line[e] = None THEN NoResult ELSE Vis("line", line[e])
    /\ calls' = r.writes
    /\ GraphUnchanged /\ TLUnchanged

\* the graph gives vertex v the coordinates c
SetCoordinates(v, c) ==
    /\ vCoord[v] # c
    /\ vCoord' = [vCoord EXCEPT ![v] = c]
    /\ UNCHANGED <<vSG, opposite, point, line, layerGroup, controlGroup, overlayTree,
                   layers, onMap, kids, lineGroup, stamps, pCoord, lCoord>>
    /\ op' = [name |-> "setCoordinates", arg |-> v]
    /\ events' = <<>> /\ seen' = <<>> /\ calls' = <<>>
    /\ result' = NoResult
    /\ TLUnchanged

\* the graph moves vertex v into spatial group g
MoveVertex(v, g) ==
    /\ vSG[v] # g
    /\ vSG' = [vSG EXCEPT ![v] = g]
    /\ UNCHANGED <<opposite, point, line, layerGroup, controlGroup, overlayTree,
                   layers, onMap, kids, lineGroup, stamps, vCoord, pCoord, lCoord>>
    /\ op' = [name |-> "moveVertex", arg |-> v]
    /\ events' = <<>> /\ seen' = <<>> /\ calls' = <<>>
    /\ result' = NoResult
    /\ TLUnchanged

(***************************************************************************)
(* Initial states                                                          *)
(***************************************************************************)
\* timelineViewer after its constructor
InitTLViewer ==
    /\ items = {}
    /\ itemGroup = [g \in SG |-> None]
    /\ sgItem = [g \in SG |-> FALSE]
    /\ selections = {}
    /\ tlWidth = 0
    /\ tlStart = NowT
    /\ tlEnd = NowT
    /\ rendered = {}
    /\ tlSelection = {}

\* both temporal groups are shown as rows (createGroup was called for each)
InitRows ==
    /\ groups = <<"t1", "t2">>
    /\ nestedGroups = [t \in TG |-> <<>>]
    /\ tgGroup = [t \in TG |-> TRUE]

FullWindow == [start |-> ItemWidth, end |-> ItemWidth + 800, mpp |-> 1, width |-> 800]

\* no tour file is being imported
NoJson == [temporalGroups |-> [x \in Tours |-> <<>>],
           spatialGroups |-> [x \in Tours |-> <<>>],
           vertices |-> [x \in Tours |-> <<>>],
           tours |-> [x \in Tours |-> NoTours],
           subGroups |-> [d \in ImpT |-> <<>>],
           groupVertices |-> [d \in ImpS |-> <<>>],
           outgoingEdges |-> [d \in ImpV |-> <<>>],
           bad |-> {}]

\* the directory is empty and was never scanned
InitDirIdle ==
    /\ dirFiles = [n \in DirNames |-> NoEntry]
    /\ dirDirs = [n \in DirNames |-> NoEntry]
    /\ dirHandle = TRUE
    /\ listing = <<>>
    /\ loading = FALSE
    /\ scanned = FALSE
    /\ scans = <<>>

\* the accessors as constructed: only the disk accessor has a subject
InitAccIdle ==
    /\ targetSubject = [a \in Accessors |-> IF a = "disk" THEN 1 ELSE 0]
    /\ subjects = [a \in Accessors |-> IF a = "disk" THEN <<NewSubject>> ELSE <<>>]
    /\ pickers = [a \in Accessors |-> {}]

\* no vertex is linked to a file
InitLinksIdle ==
    /\ imageFile = [v \in Linkable |-> None]
    /\ fileVertex = [f \in Files |-> None]
    /\ background = [b \in Backgrounds |-> None]
    /\ usedFiles = {}

InitFilesIdle ==
    /\ InitLinksIdle
    /\ InitDirIdle
    /\ InitAccIdle

InitImportIdle ==
    /\ InitFilesIdle
    /\ json = NoJson
    /\ imp = ImpIdle

InitHistory ==
    /\ InitImportIdle
    /\ op = [name |-> "init", arg |-> None]
    /\ events = <<>>
    /\ seen = <<>>
    /\ calls = <<>>
    /\ result = "undefined"

\* the connection of v1 and v2 is the single edge e12, or e12 and its opposite e21
Unidirectional == [e \in E |-> None]
Bidirectional == [e \in E |-> IF e = "e12" THEN "e21" ELSE "e12"]

(***************************************************************************)
(* Actions of the filesystem                                               *)
(***************************************************************************)
FSLink(v, f) ==
    LET r == link(FState, v, f) IN
    /\ FCommit(r)
    /\ op' = [name |-> "link", arg |-> <<v, f>>]
    /\ result' = IF r.threw = "no" THEN "undefined" ELSE r.threw
    /\ seen' = <<>> /\ calls' = <<>>
    /\ UNCHANGED <<tlVars, mapVars, imVars, dirVars, accVars>>

FSUnlink(v) ==
    LET r == unlink(FState, v) IN
    /\ FCommit(r)
    /\ op' = [name |-> "unlink", arg |-> v]
    /\ result' = IF r.threw = "no" THEN "undefined" ELSE r.threw
    /\ seen' = <<>> /\ calls' = <<>>
    /\ UNCHANGED <<tlVars, mapVars, imVars, dirVars, accVars>>

(***************************************************************************)
(* Actions of the directory                                                *)
(***************************************************************************)
DirUnchanged == UNCHANGED <<tlVars, mapVars, imVars, linkVars, accVars>>

\* the entries a file input or a drop hands to addEntry: all of the name a, which the
\* reader lists as well
NewEntries ==
    [kind : {"file"}, name : {"a"}, obj : {"o1", "o2"}, handle : {"hd"}, file : {None}]
    \cup [kind : {"file"}, name : {"a"}, obj : {"o1", "o2"}, handle : {None},
          file : {"blob"}]
    \cup [kind : {"directory"}, name : {"a"}, obj : {"o1", "o2"}, handle : {"hd", None},
          file : {None}]
    \cup [kind : {"other"}, name : {"a"}, obj : {"o1"}, handle : {None}, file : {None}]

\* the entry is a new object: none of the stored ones
Fresh(entry) ==
    /\ entry.kind = "file" /\ dirFiles[entry.name] # NoEntry
       => dirFiles[entry.name].obj # entry.obj
    /\ entry.kind = "directory" /\ dirDirs[entry.name] # NoEntry
       => dirDirs[entry.name].obj # entry.obj

DirAddEntry(entry) ==
    LET r == addEntry(DState, entry) IN
    /\ Fresh(entry)
    /\ DCommit(r)
    /\ op' = [name |-> "addEntry", arg |-> entry]
    /\ result' = r.ret
    /\ seen' = <<>> /\ calls' = <<>>
    /\ DirUnchanged

DirScan(enforce) ==
    /\ Len(scans) < MaxScans
    /\ DCommit(scan(DState, enforce))
    /\ op' = [name |-> "scan", arg |-> enforce]
    /\ result' = "observable"
    /\ seen' = <<>> /\ calls' = <<>>
    /\ DirUnchanged

DirSubscribe(k) ==
    /\ k \in DOMAIN scans
    /\ scans[k].status = "cold"
    /\ DCommit(subscribeScan(DState, k))
    /\ op' = [name |-> "subscribe", arg |-> k]
    /\ result' = "undefined"
    /\ seen' = <<>> /\ calls' = <<>>
    /\ DirUnchanged

\* the batch the reader of the k-th scan returns next: empty after the last one
NextBatch(k) ==
    IF scans[k].pos < Len(listing) THEN listing[scans[k].pos + 1] ELSE <<>>

DirReadEntries(k) ==
    /\ k \in DOMAIN scans
    /\ scans[k].status = "running"
    /\ DCommit(readEntries(DState, k, NextBatch(k)))
    /\ op' = [name |-> "readEntries", arg |-> k]
    /\ result' = "undefined"
    /\ seen' = <<>> /\ calls' = <<>>
    /\ DirUnchanged

DirReadError(k) ==
    /\ k \in DOMAIN scans
    /\ scans[k].status = "running"
    /\ DCommit(readError(DState, k))
    /\ op' = [name |-> "readError", arg |-> k]
    /\ result' = "undefined"
    /\ seen' = <<>> /\ calls' = <<>>
    /\ DirUnchanged

(***************************************************************************)
(* Actions of the accessors                                                *)
(***************************************************************************)
AccUnchanged == UNCHANGED <<tlVars, mapVars, imVars, linkVars, dirVars>>

\* the subjects the requests have created so far
Requests == Len(subjects["disk"]) - 1 + Len(subjects["tree"]) + Len(subjects["cordova"])
            + Len(subjects["electron"])

\* what a picker or a response reports: nothing, one path or two
PathLists == {<<>>, <<"p">>, <<"p", "q">>}

AccRequest(a, api) ==
    LET r == request(AState, a, api) IN
    /\ Requests < MaxRequests
    /\ a # "electron" => api
    /\ ACommit(r)
    /\ op' = [name |-> "request", arg |-> a]
    /\ result' = IF r.threw = "no" THEN "observable" ELSE r.threw
    /\ events' = <<>> /\ seen' = <<>> /\ calls' = <<>>
    /\ AccUnchanged

AccFileEvent ==
    /\ ACommit(fileEvent(AState))
    /\ op' = [name |-> "fileEvent", arg |-> "disk"]
    /\ result' = "undefined"
    /\ events' = <<>> /\ seen' = <<>> /\ calls' = <<>>
    /\ AccUnchanged

AccConfirmSelection(selected) ==
    /\ ACommit(confirmSelection(AState, selected))
    /\ op' = [name |-> "confirmSelection", arg |-> selected]
    /\ result' = "undefined"
    /\ events' = <<>> /\ seen' = <<>> /\ calls' = <<>>
    /\ AccUnchanged

AccPickerSuccess(p, paths) ==
    /\ p \in pickers["cordova"]
    /\ ACommit(pickerSuccess(AState, p, paths))
    /\ op' = [name |-> "pickerSuccess", arg |-> p]
    /\ result' = "undefined"
    /\ events' = <<>> /\ seen' = <<>> /\ calls' = <<>>
    /\ AccUnchanged

AccPickerError(p) ==
    /\ p \in pickers["cordova"]
    /\ ACommit(pickerError(AState, p))
    /\ op' = [name |-> "pickerError", arg |-> p]
    /\ result' = "undefined"
    /\ events' = <<>> /\ seen' = <<>> /\ calls' = <<>>
    /\ AccUnchanged

AccFsResponse(p, paths) ==
    /\ p \in pickers["electron"]
    /\ ACommit(fsResponse(AState, p, paths))
    /\ op' = [name |-> "fsResponse", arg |-> p]
    /\ result' = "undefined"
    /\ events' = <<>> /\ seen' = <<>> /\ calls' = <<>>
    /\ AccUnchanged

(***************************************************************************)
(* Actions of the import                                                   *)
(***************************************************************************)
ViewersUnchanged == UNCHANGED <<tlVars, mapVars, fsVars>>

\* algorithms.loadGraph(tour) for the tour file x
IMLoadGraph(x) ==
    LET r == loadGraph(imp, x) IN
    /\ x \notin Range(imp.loads)
    /\ imp' = [imp EXCEPT !.attempts = r.attempts, !.logged = r.logged,
                          !.loads = Append(@, x)]
    /\ op' = [name |-> "loadGraph", arg |-> x]
    /\ result' = IF r.successful THEN "true" ELSE "false"
    /\ events' = <<>> /\ seen' = <<>> /\ calls' = <<>>
    /\ UNCHANGED json
    /\ ViewersUnchanged

\* algorithms.readTour(tour R, rootFolder) is called
IMReadTour ==
    /\ "R" \notin imp.called
    /\ imp' = callTour(imp, "R")
    /\ op' = [name |-> "readTour", arg |-> "R"]
    /\ result' = "observable"
    /\ events' = <<>> /\ seen' = <<>> /\ calls' = <<>>
    /\ UNCHANGED json
    /\ ViewersUnchanged

\* the caller subscribes to the observable readTour returned
IMSubscribe ==
    /\ "R" \in imp.called
    /\ "R" \notin imp.subscribed
    /\ imp' = subscribeTour(imp, "R")
    /\ op' = [name |-> "subscribe", arg |-> "R"]
    /\ result' = "undefined"
    /\ events' = <<>> /\ seen' = <<>> /\ calls' = <<>>
    /\ UNCHANGED json
    /\ ViewersUnchanged

\* rootFolder.searchFile(path) delivers the file of child tour c: f.readAsJSON() starts
IMSearchDone(c) ==
    /\ c \in imp.searching
    /\ imp' = [imp EXCEPT !.searching = @ \ {c}, !.reading = @ \cup {c}]
    /\ op' = [name |-> "searchFile", arg |-> c]
    /\ result' = "undefined"
    /\ events' = <<>> /\ seen' = <<>> /\ calls' = <<>>
    /\ UNCHANGED json
    /\ ViewersUnchanged

\* f.readAsJSON() delivers the content of child tour c: readTour(t, f.parent) is called
\* and its observable is merged
IMReadDone(c) ==
    /\ c \in imp.reading
    /\ imp' = subscribeTour(callTour([imp EXCEPT !.reading = @ \ {c}], c), c)
    /\ op' = [name |-> "readAsJSON", arg |-> c]
    /\ result' = "undefined"
    /\ events' = <<>> /\ seen' = <<>> /\ calls' = <<>>
    /\ UNCHANGED json
    /\ ViewersUnchanged

\* the positions a vertex can have, and where the vertices lie at the start
Positions == {<<k, MaxCoord - k>> : k \in 0..MaxCoord}
HomeCoords == [v \in V |-> IF v = "v1" THEN <<0, MaxCoord>> ELSE <<MaxCoord, 0>>]

InitGraph ==
    /\ vSG = [v \in V |-> "g1"]
    /\ vCoord = HomeCoords
    /\ opposite \in {Unidirectional, Bidirectional}

\* mapViewer after its constructor: no visual exists
InitMapViewer ==
    /\ point = [v \in V |-> NoVisual]
    /\ line = [e \in E |-> None]
    /\ layerGroup = [g \in MSG |-> NoVisual]
    /\ controlGroup = [t \in TG |-> NoVisual]
    /\ overlayTree = <<>>
    /\ layers = {}
    /\ onMap = {}
    /\ kids = [c \in MSG \cup TG |-> {}]
    /\ lineGroup = {}
    /\ stamps = <<>>
    /\ pCoord = [v \in V |-> NoVisual]
    /\ lCoord = [e \in E |-> <<>>]

\* the map viewer is not used
InitMapIdle ==
    /\ vSG = [v \in V |-> "g1"]
    /\ vCoord = HomeCoords
    /\ opposite = Bidirectional
    /\ InitMapViewer

(***************************************************************************)
(* SpecSel: selection on the timeline.  Spatial groups g1 and g2 start     *)
(* under t1, which is not multiselect, and g3 under t2, which is.  The     *)
(* graph may move g3 between the two; the user may remove g1's item in     *)
(* the widget.                                                             *)
(***************************************************************************)
SelGroups == {"g1", "g2", "g3"}
Movable == {"g3"}
Removable == {"g1"}

InitSel ==
    /\ sgSuper = [g \in SG |-> IF g \in {"g1", "g2"} THEN "t1"
                               ELSE IF g = "g3" THEN "t2" ELSE None]
    /\ multiselect = [t \in TG |-> t = "t2"]
    /\ timeslot = [g \in SG |-> 0]
    /\ settingsSel = {}
    /\ aggregate = FALSE
    /\ win = FullWindow
    /\ InitTLViewer
    /\ InitRows
    /\ InitHistory
    /\ InitMapIdle

NextSel ==
    \/ \E g \in SelGroups : TLCreateItem(g)
    \/ \E g \in SelGroups : TLDeleteItem(g)
    \/ \E g \in SelGroups : TLSelect(<<g>>)
    \/ \E val \in Arrangements(SelGroups, MaxSel) : TLSelections(val)
    \/ \E g \in Removable : TLOnRemove(g)
    \/ \E g \in Movable, t \in TG : TLMoveGroup(g, t)
    \/ \E g \in Movable : TLUpdateItem(g)

SpecSel == InitSel /\ [][NextSel]_vars

(***************************************************************************)
(* SpecAgg: aggregation.  All five spatial groups have an item; their      *)
(* timeslots and the row of g5 are drawn in the initial state; the user    *)
(* changes the window and the aggregation toggle.                          *)
(***************************************************************************)
PxWidth == 200

\* windows of the widget: two at scale 1, one at scale 2 whose scale is not cached,
\* and an empty one, whose scale is 0
Windows ==
    {[start |-> ItemWidth, end |-> ItemWidth + PxWidth, mpp |-> 1, width |-> PxWidth],
     [start |-> ItemWidth + SlotLen, end |-> ItemWidth + SlotLen + PxWidth, mpp |-> 1,
      width |-> PxWidth],
     [start |-> 2 * ItemWidth, end |-> 2 * ItemWidth + 2 * PxWidth, mpp |-> 0,
      width |-> PxWidth],
     [start |-> SlotLen, end |-> SlotLen, mpp |-> 0, width |-> PxWidth]}

InitAgg ==
    /\ \E t \in TG : sgSuper = [g \in SG |-> IF g = "g5" THEN t ELSE "t1"]
    /\ multiselect = [t \in TG |-> t = "t2"]
    /\ \E ts \in [SG -> 0..MaxSlot] : timeslot = [g \in SG |-> ts[g] * SlotLen]
    /\ settingsSel = {}
    /\ aggregate = FALSE
    /\ win = FullWindow
    /\ items = SG
    /\ itemGroup = sgSuper
    /\ sgItem = [g \in SG |-> TRUE]
    /\ selections = {}
    /\ tlWidth = 0
    /\ tlStart = NowT
    /\ tlEnd = NowT
    /\ rendered = {}
    /\ tlSelection = {}
    /\ InitRows
    /\ InitHistory
    /\ InitMapIdle

NextAgg ==
    \/ \E w \in Windows : TLRangeChanged(w)
    \/ \E val \in BOOLEAN : TLAggregateItems(val)

SpecAgg == InitAgg /\ [][NextAgg]_vars

(***************************************************************************)
(* SpecMap: points, lines and layer groups on the map.  The spatial groups *)
(* g1 and g2 belong to temporal group t1, whose control group has been     *)
(* created and stays; vertices v1 and v2 start in g1 and the graph may     *)
(* move v1 between g1 and g2; v1 and v2 are connected by the single edge   *)
(* e12 or by e12 and its opposite e21.                                     *)
(***************************************************************************)
MovableV == {"v1"}

InitTimelineIdle ==
    /\ multiselect = [t \in TG |-> FALSE]
    /\ timeslot = [g \in SG |-> 0]
    /\ settingsSel = {}
    /\ aggregate = FALSE
    /\ win = FullWindow
    /\ InitTLViewer
    /\ InitRows

InitMapHistory ==
    /\ InitImportIdle
    /\ op = [name |-> "init", arg |-> None]
    /\ events = <<>>
    /\ seen = <<>>
    /\ calls = <<>>
    /\ result = NoResult

\* mapViewer after its constructor and createControlGroup(t1)
InitMap ==
    /\ sgSuper = [g \in SG |-> IF g \in MSG THEN "t1" ELSE None]
    /\ InitTimelineIdle
    /\ InitGraph
    /\ point = [v \in V |-> NoVisual]
    /\ line = [e \in E |-> None]
    /\ layerGroup = [g \in MSG |-> NoVisual]
    /\ controlGroup = [t \in TG |-> IF t = "t1"
                                    THEN [parent |-> Null, children |-> <<>>]
                                    ELSE NoVisual]
    /\ overlayTree = <<"t1">>
    /\ layers = {"t1"}
    /\ onMap = {"t1"}
    /\ kids = [c \in MSG \cup TG |-> {}]
    /\ lineGroup = {}
    /\ stamps = <<>>
    /\ pCoord = [v \in V |-> NoVisual]
    /\ lCoord = [e \in E |-> <<>>]
    /\ InitMapHistory

NextMap ==
    \/ MVCreateControlGroup("t1")
    \/ \E g \in MSG : MVCreateLayerGroup(g)
    \/ \E v \in V : MVCreatePoint(v)
    \/ \E e \in Edges : MVCreateLine(e)
    \/ \E g \in MSG : MVShowLayerGroup(g)
    \/ \E g \in MSG : MVHideLayerGroup(g)
    \/ \E v \in V : MVUpdateParent("point", v)
    \/ \E e \in Edges : MVUpdateParentOfLine(e)
    \/ \E g \in MSG : MVDeleteLayerGroup(g)
    \/ \E v \in V : MVDeletePoint(v)
    \/ \E e \in Edges : MVDeleteLine(e)
    \/ \E v \in MovableV, g \in MSG : MoveVertex(v, g)

SpecMap == InitMap /\ [][NextMap]_vars

(***************************************************************************)
(* SpecTree: control groups and layer groups.  g1 belongs to temporal      *)
(* group t1 and g2 to t2, which is nested in t1; no visual exists at the   *)
(* start.                                                                  *)
(***************************************************************************)
InitTree ==
    /\ sgSuper = [g \in SG |-> IF g = "g1" THEN "t1" ELSE IF g = "g2" THEN "t2" ELSE None]
    /\ InitTimelineIdle
    /\ InitGraph
    /\ InitMapViewer
    /\ InitMapHistory

NextTree ==
    \/ \E t \in TG : MVCreateControlGroup(t)
    \/ \E g \in MSG : MVCreateLayerGroup(g)
    \/ \E g \in MSG : MVShowLayerGroup(g)
    \/ \E g \in MSG : MVHideLayerGroup(g)
    \/ \E g \in MSG : MVUpdateParent("layerGroup", g)
    \/ \E t \in TG : MVUpdateParent("controlGroup", t)
    \/ \E t \in TG : MVDeleteControlGroup(t)
    \/ \E g \in MSG : MVDeleteLayerGroup(g)

SpecTree == InitTree /\ [][NextTree]_vars

(***************************************************************************)
(* SpecGrp: rows and items of the timeline.  Spatial group g1 belongs to   *)
(* temporal group t1 and g2 to t2, which is nested in t1; the viewer       *)
(* starts without rows and without items.                                  *)
(***************************************************************************)
GrpGroups == {"g1", "g2"}

InitGrp ==
    /\ sgSuper = [g \in SG |-> IF g = "g1" THEN "t1" ELSE IF g = "g2" THEN "t2" ELSE None]
    /\ multiselect = [t \in TG |-> FALSE]
    /\ timeslot = [g \in SG |-> 0]
    /\ settingsSel = {}
    /\ aggregate = FALSE
    /\ win = FullWindow
    /\ InitTLViewer
    /\ groups = <<>>
    /\ nestedGroups = [t \in TG |-> <<>>]
    /\ tgGroup = [t \in TG |-> FALSE]
    /\ InitHistory
    /\ InitMapIdle

NextGrp ==
    \/ \E t \in TG : TLCreateGroup(t)
    \/ \E t \in TG : TLDeleteGroup(t)
    \/ \E g \in GrpGroups : TLCreateItem(g)
    \/ \E g \in GrpGroups : TLDeleteItem(g)
    \/ \E g \in GrpGroups : TLSelect(<<g>>)
    \/ \E g \in GrpGroups : TLOnRemove(g)

SpecGrp == InitGrp /\ [][NextGrp]_vars

(***************************************************************************)
(* SpecCoord: vertices change their coordinates.  Both vertices lie in     *)
(* spatial group g1 of temporal group t1, whose control group exists.      *)
(***************************************************************************)
NextCoord ==
    \/ \E v \in V : MVCreatePoint(v)
    \/ \E e \in Edges : MVCreateLine(e)
    \/ \E v \in V : MVDeletePoint(v)
    \/ \E e \in Edges : MVDeleteLine(e)
    \/ \E v \in V, c \in Positions : SetCoordinates(v, c)
    \/ \E v \in V : MVUpdatePointCoordinates(v)
    \/ \E e \in Edges : MVUpdateLineCoordinates(e)

SpecCoord == InitMap /\ [][NextCoord]_vars

(***************************************************************************)
(* SpecLoad: loadGraph of one tour file.  The file R declares temporal     *)
(* groups T1 (with nested spatial group S1) and T2, the spatial group S2,  *)
(* vertex V1 nested in S1 with edge E1, and vertex V2 with edge E2; any    *)
(* of the declarations can be malformed.                                   *)
(***************************************************************************)
LoadJson(bad) ==
    [NoJson EXCEPT !.temporalGroups["R"] = <<"T1", "T2">>,
                   !.spatialGroups["R"] = <<"S2">>,
                   !.vertices["R"] = <<"V2">>,
                   !.subGroups["T1"] = <<"S1">>,
                   !.groupVertices["S1"] = <<"V1">>,
                   !.outgoingEdges["V1"] = <<"E1">>,
                   !.outgoingEdges["V2"] = <<"E2">>,
                   !.bad = bad]

LoadDeclared == {"T1", "T2", "S1", "S2", "V1", "V2", "E1", "E2"}

InitLoad ==
    /\ sgSuper = [g \in SG |-> None]
    /\ InitTimelineIdle
    /\ InitMapIdle
    /\ \E bad \in SUBSET LoadDeclared : json = LoadJson(bad)
    /\ imp = ImpIdle
    /\ InitFilesIdle
    /\ op = [name |-> "init", arg |-> None]
    /\ events = <<>>
    /\ seen = <<>>
    /\ calls = <<>>
    /\ result = "undefined"

NextLoad == IMLoadGraph("R")

SpecLoad == InitLoad /\ [][NextLoad]_vars

(***************************************************************************)
(* SpecTour: readTour of a tour file R that declares temporal group T1     *)
(* and spatial group S1 and has no tours entry, an empty one, or lists     *)
(* the child tours A, or A and B.  A declares TA and SA, B declares TB     *)
(* and SB; B has no tours entry or an empty one.  Any declaration can be   *)
(* malformed.  The reads of the child tours complete in any order.         *)
(***************************************************************************)
TourDeclarations == {"T1", "S1", "TA", "SA", "TB", "SB"}

TourJson(tours, toursB, bad) ==
    [NoJson EXCEPT !.temporalGroups = [x \in Tours |->
                        IF x = "R" THEN <<"T1">> ELSE IF x = "A" THEN <<"TA">> ELSE <<"TB">>],
                   !.spatialGroups = [x \in Tours |->
                        IF x = "R" THEN <<"S1">> ELSE IF x = "A" THEN <<"SA">> ELSE <<"SB">>],
                   !.tours = [x \in Tours |->
                        IF x = "R" THEN tours ELSE IF x = "B" THEN toursB ELSE NoTours],
                   !.bad = bad]

InitTour ==
    /\ sgSuper = [g \in SG |-> None]
    /\ InitTimelineIdle
    /\ InitMapIdle
    /\ \E tours \in {NoTours, TourList(<<>>), TourList(<<"A">>), TourList(<<"A", "B">>)},
          toursB \in {NoTours, TourList(<<>>)},
          bad \in SUBSET TourDeclarations :
          json = TourJson(tours, toursB, bad)
    /\ imp = ImpIdle
    /\ InitFilesIdle
    /\ op = [name |-> "init", arg |-> None]
    /\ events = <<>>
    /\ seen = <<>>
    /\ calls = <<>>
    /\ result = "undefined"

NextTour ==
    \/ IMReadTour
    \/ IMSubscribe
    \/ \E c \in Tours : IMSearchDone(c)
    \/ \E c \in Tours : IMReadDone(c)

SpecTour == InitTour /\ [][NextTour]_vars

(***************************************************************************)
(* SpecFiles: the vertices v1 and v2 and the background b1 are linked to   *)
(* and unlinked from the image files f1 and f2.                            *)
(***************************************************************************)
InitFiles ==
    /\ sgSuper = [g \in SG |-> None]
    /\ InitTimelineIdle
    /\ InitMapIdle
    /\ InitImportIdle
    /\ op = [name |-> "init", arg |-> None]
    /\ events = <<>>
    /\ seen = <<>>
    /\ calls = <<>>
    /\ result = "undefined"

NextFiles ==
    \/ \E v \in Linkable, f \in Files : FSLink(v, f)
    \/ \E v \in Linkable : FSUnlink(v)

SpecFiles == InitFiles /\ [][NextFiles]_vars

(***************************************************************************)
(* SpecDir: a webkitdirectory.  Entries come from file inputs and drops    *)
(* and from scans; the reader lists nothing, one batch or two batches, and *)
(* may fail at any call.                                                   *)
(***************************************************************************)
FileA == [kind |-> "file", name |-> "a"]
FileB == [kind |-> "file", name |-> "b"]
DirA == [kind |-> "directory", name |-> "a"]

ReaderListings == {<<>>, <<(<<FileA, DirA>>)>>, <<(<<FileA>>), (<<FileB>>)>>}

InitDir ==
    /\ sgSuper = [g \in SG |-> None]
    /\ InitTimelineIdle
    /\ InitMapIdle
    /\ InitLinksIdle
    /\ InitAccIdle
    /\ json = NoJson
    /\ imp = ImpIdle
    /\ dirFiles = [n \in DirNames |-> NoEntry]
    /\ dirDirs = [n \in DirNames |-> NoEntry]
    /\ dirHandle \in BOOLEAN
    /\ listing \in ReaderListings
    /\ loading = FALSE
    /\ scanned = FALSE
    /\ scans = <<>>
    /\ op = [name |-> "init", arg |-> None]
    /\ events = <<>>
    /\ seen = <<>>
    /\ calls = <<>>
    /\ result = "undefined"

NextDir ==
    \/ \E entry \in NewEntries : DirAddEntry(entry)
    \/ \E enforce \in BOOLEAN : DirScan(enforce)
    \/ \E k \in 1..MaxScans : DirSubscribe(k)
    \/ \E k \in 1..MaxScans : DirReadEntries(k)
    \/ \E k \in 1..MaxScans : DirReadError(k)

SpecDir == InitDir /\ [][NextDir]_vars

(***************************************************************************)
(* SpecScanLive: the scans of a webkitdirectory under fairness.  A reader  *)
(* that was asked for entries calls one of its two callbacks in the end;   *)
(* whether and when the caller of scan subscribes is up to the caller.     *)
(***************************************************************************)
NextScan ==
    \/ \E enforce \in BOOLEAN : DirScan(enforce)
    \/ \E k \in 1..MaxScans : DirSubscribe(k)
    \/ \E k \in 1..MaxScans : DirReadEntries(k)
    \/ \E k \in 1..MaxScans : DirReadError(k)

ReaderFairness == \A k \in 1..MaxScans : WF_vars(DirReadEntries(k) \/ DirReadError(k))

SpecScanLive == InitDir /\ [][NextScan]_vars /\ ReaderFairness

(***************************************************************************)
(* SpecAcc: the four accessors.  Requests arrive in any order; files are   *)
(* chosen on disk, the selection of the file tree is confirmed, native     *)
(* pickers and the electron main process answer.                           *)
(***************************************************************************)
NextAcc ==
    \/ \E a \in Accessors, api \in BOOLEAN : AccRequest(a, api)
    \/ AccFileEvent
    \/ \E selected \in SUBSET Range(TreeNodes) : AccConfirmSelection(selected)
    \/ \E p \in 1..MaxRequests, paths \in PathLists : AccPickerSuccess(p, paths)
    \/ \E p \in 1..MaxRequests : AccPickerError(p)
    \/ \E p \in 1..MaxRequests, paths \in PathLists : AccFsResponse(p, paths)

SpecAcc == InitFiles /\ [][NextAcc]_vars

(***************************************************************************)
(* SpecRange: clicks on aggregated items.  As in SpecAgg all five spatial  *)
(* groups have an item; their timeslots are drawn from the first two       *)
(* slots, so that runs of three and more occur, and the user clicks shown  *)
(* items and rangeItems while the window and the toggle change.            *)
(***************************************************************************)
MaxRangeSlot == 1

RangeSlots == 0..MaxRangeSlot

InitRange ==
    /\ \E t \in TG : sgSuper = [g \in SG |-> IF g = "g5" THEN t ELSE "t1"]
    /\ multiselect = [t \in TG |-> t = "t2"]
    /\ \E ts \in [SG -> RangeSlots] : timeslot = [g \in SG |-> ts[g] * SlotLen]
    /\ settingsSel = {}
    /\ aggregate = FALSE
    /\ win = FullWindow
    /\ items = SG
    /\ itemGroup = sgSuper
    /\ sgItem = [g \in SG |-> TRUE]
    /\ selections = {}
    /\ tlWidth = 0
    /\ tlStart = NowT
    /\ tlEnd = NowT
    /\ rendered = {}
    /\ tlSelection = {}
    /\ InitRows
    /\ InitHistory
    /\ InitMapIdle

NextRange ==
    \/ \E w \in Windows : TLRangeChanged(w)
    \/ \E val \in BOOLEAN : TLAggregateItems(val)
    \/ \E el \in rendered : TLClick(el)

SpecRange == InitRange /\ [][NextRange]_vars

(***************************************************************************)
(* SpecBoth: the two viewers side by side on one graph.  Spatial group g1  *)
(* belongs to temporal group t1; both viewers start empty.  Visuals of     *)
(* t1, g1, the vertices and the edges are created and deleted in any       *)
(* order.                                                                  *)
(***************************************************************************)
InitBoth ==
    /\ sgSuper = [g \in SG |-> IF g \in MSG THEN "t1" ELSE None]
    /\ multiselect = [t \in TG |-> FALSE]
    /\ timeslot = [g \in SG |-> 0]
    /\ settingsSel = {}
    /\ aggregate = FALSE
    /\ win = FullWindow
    /\ InitTLViewer
    /\ groups = <<>>
    /\ nestedGroups = [t \in TG |-> <<>>]
    /\ tgGroup = [t \in TG |-> FALSE]
    /\ InitHistory
    /\ InitMapIdle

NextBoth ==
    \/ TLCreateGroup("t1")
    \/ TLDeleteGroup("t1")
    \/ TLCreateItem("g1")
    \/ TLDeleteItem("g1")
    \/ MVCreateControlGroup("t1")
    \/ MVCreateLayerGroup("g1")
    \/ \E v \in V : MVCreatePoint(v)
    \/ MVCreateLine("e12")
    \/ MVDeleteControlGroup("t1")
    \/ MVDeleteLayerGroup("g1")
    \/ \E v \in V : MVDeletePoint(v)
    \/ \E e \in Edges : MVDeleteLine(e)

SpecBoth == InitBoth /\ [][NextBoth]_vars

(***************************************************************************)
(* Claims about the timeline viewer                                        *)
(***************************************************************************)
IsEv(e, id, action) == e.kind = "item" /\ e.id = id /\ e.action = action

\* the selected items that spatial groups under the parent of g still reference
SelectedSiblings(g) == {h \in SG : sgSuper[h] = sgSuper[g] /\ sgItem[h] /\ h \in selections}

OnePerExclusiveGroup(S) ==
    \A x \in S, y \in S :
        (x # y /\ sgSuper[x] = sgSuper[y] /\ sgSuper[x] # None) => isMultiselect(x)

\* the last id of the list val that names a registered item, if any
LastRegistered(val) ==
    LET ks == {k \in DOMAIN val : val[k] \in items}
    IN IF ks = {} THEN None ELSE val[CHOOSE k \in ks : \A j \in ks : j <= k]

SetMin(S) == CHOOSE x \in S : \A y \in S : x <= y
SetMax(S) == CHOOSE x \in S : \A y \in S : y <= x

\* the threshold of the last pass
Critical == (Scale(win) * ItemWidth) \div 2

\* the registered items of row t whose start lies in the recorded window
RowVisible(t) ==
    {g \in items : sgSuper[g] = t /\ tlStart <= ItemStart(g) /\ ItemStart(g) <= tlEnd}

RowStarts(t) == {ItemStart(g) : g \in RowVisible(t)}

\* between the start times lo < hi every gap of neighbouring start times is below
\* the threshold
Unbroken(t, lo, hi) ==
    \A p \in RowStarts(t) :
        (lo <= p /\ p < hi)
        => SetMin({q \in RowStarts(t) : q > p}) - p < Critical

SameRun(t, x, y) ==
    IF ItemStart(x) = ItemStart(y) THEN x = y \/ 0 < Critical
    ELSE Unbroken(t, SetMin({ItemStart(x), ItemStart(y)}),
                  SetMax({ItemStart(x), ItemStart(y)}))

RunOf(t, x) == {y \in RowVisible(t) : SameRun(t, x, y)}

RangesOver(R) == {el \in rendered : el.kind = "range" /\ Range(el.members) = R}

\* C2: with aggregateItems on, in every row the visible items fall into maximal runs
\* in which neighbouring start times are less than criticalDuration apart; a run of
\* three or more is shown as exactly one rangeItem from its first to its last member
\* and its members are not shown individually; the members of a run of one or two
\* are shown individually.
C2_Aggregation ==
    aggregate
    => /\ \A t \in Range(groups) : \A x \in RowVisible(t) :
              LET R == RunOf(t, x) IN
              IF Cardinality(R) >= 3
              THEN /\ Cardinality(RangesOver(R)) = 1
                   /\ \A el \in RangesOver(R) :
                          /\ Len(el.members) = Cardinality(R)
                          /\ el.group = t
                          /\ el.start = SetMin({ItemStart(y) : y \in R})
                          /\ el.end = SetMax({ItemStart(y) : y \in R})
                          /\ ItemStart(el.first) = el.start
                          /\ ItemStart(el.last) = el.end
                   /\ \A el \in rendered : x \in Range(el.members) => el \in RangesOver(R)
              ELSE /\ \E el \in rendered : el.kind = "item" /\ el.first = x
                   /\ \A el \in rendered : x \in Range(el.members) => el.kind = "item"
       /\ \A el \in rendered :
              \E t \in Range(groups) : Range(el.members) \subseteq RowVisible(t)

\* C2 witness: one row shows a rangeItem of three and, apart from it, a run of two
\* as two individual items
C2_Witness ==
    /\ aggregate
    /\ \E el \in rendered, a \in rendered, b \in rendered :
          /\ el.kind = "range" /\ Len(el.members) = 3
          /\ a.kind = "item" /\ b.kind = "item" /\ a # b
          /\ a.group = el.group /\ b.group = el.group
          /\ SameRun(el.group, a.first, b.first)

(***************************************************************************)
(* Claims about the map viewer                                             *)
(***************************************************************************)
HasPoint(v) == point[v] # NoVisual

\* C4: in every reachable state the line of an edge is attached to lineGroup only
\* if both endpoints of the edge have a point that is on the map.
C4_LineNeedsBothEndpoints ==
    \A e \in Edges :
        (line[e] # None /\ line[e] \in lineGroup)
        => /\ HasPoint(EFrom(e)) /\ EFrom(e) \in onMap
           /\ HasPoint(ETo(e)) /\ ETo(e) \in onMap

\* C5: updateParent(v) for a vertex whose point records another parent than the
\* derived one makes the layerGroup of v's spatial group the recorded parent and
\* puts the point into that group's layer and into no other group's layer; the
\* recorded parent and the containment of every other point stay as they are; when
\* the recorded parent is the derived one, nothing changes.
C5_Reparent ==
    [][\A v \in V :
          (op'.name = "updateParent" /\ op'.arg = v /\ HasPoint(v))
          => IF point[v].parent = deriveParent(MState, "point", v)
             THEN UNCHANGED mapVars /\ events' = <<>>
             ELSE /\ layerGroup[vSG[v]] # NoVisual
                     => /\ point'[v].parent = Live(vSG[v])
                        /\ v \in kids'[vSG[v]]
                  /\ \A g \in MSG \ {vSG[v]} : v \notin kids'[g]
                  /\ \A w \in V \ {v} :
                         /\ point'[w] = point[w]
                         /\ \A g \in MSG : (w \in kids'[g]) <=> (w \in kids[g])
      ]_vars

\* C5 witness: v1 was moved to g2 and re-parented there while v2 stays in g1
C5_Witness ==
    /\ op.name = "updateParent" /\ op.arg = "v1"
    /\ events = <<Ev("point", "v1", "startUpdate"), Ev("point", "v1", "endUpdate")>>
    /\ vSG["v1"] = "g2"
    /\ point["v1"].parent = Live("g2")
    /\ "v1" \in kids["g2"] /\ "v1" \notin kids["g1"]
    /\ HasPoint("v2") /\ point["v2"].parent = Live("g1") /\ "v2" \in kids["g1"]

\* C6: for an edge e with an opposite, deleteLine(e) on a pair that shares a line
\* takes the line out of lineGroup and out of the layers lookup, emits one DELETE
\* and clears the line reference of e and of its opposite; deleteLine on an edge
\* without a line changes nothing and emits nothing.
C6_SharedLineDeletedOnce ==
    [][\A e \in Edges :
          (op'.name = "deleteLine" /\ op'.arg = e /\ opposite[e] # None)
          => IF line[e] # None
             THEN /\ line[opposite[e]] = line[e]
                  /\ line'[e] = None /\ line'[opposite[e]] = None
                  /\ line[e] \notin lineGroup' /\ line[e] \notin layers'
                  /\ events' = <<Ev("line", line[e], "delete")>>
             ELSE /\ line[opposite[e]] = None
                  /\ events' = <<>> /\ UNCHANGED mapVars
      ]_vars

\* C6 witness: the shared line of the pair was attached and has just been deleted
\* through e21, though e12 created it
C6_Witness ==
    /\ op.name = "deleteLine" /\ op.arg = "e21"
    /\ opposite["e21"] = "e12"
    /\ events = <<Ev("line", "e12", "delete")>>
    /\ line["e12"] = None /\ line["e21"] = None
    /\ HasPoint("v1") /\ HasPoint("v2") /\ {"v1", "v2"} \subseteq onMap

\* C7: when deletePoint(v) has deleted a point, every line DELETE precedes the
\* point's DELETE and no edge with v as an endpoint still references a line.
C7_IncidentLinesDeleted ==
    (op.name = "deletePoint" /\ events # <<>>)
    => /\ events[Len(events)] = Ev("point", op.arg, "delete")
       /\ \A k \in 1..(Len(events) - 1) : events[k].kind = "line"
       /\ \A e \in Edges : (EFrom(e) = op.arg \/ ETo(e) = op.arg) => line[e] = None

\* C8: when deleteControlGroup(t) has deleted a control group, no group nested in
\* t still has a controlGroup and no remaining controlGroup records the deleted
\* one as parent.
C8_NestedControlGroupsDeleted ==
    (op.name = "deleteControlGroup" /\ events # <<>>)
    => /\ \A t \in TG : tgSuper(t) = op.arg => controlGroup[t] = NoVisual
       /\ \A t \in TG : controlGroup[t] # NoVisual
                        => controlGroup[t].parent # Dead(op.arg)

\* C9: when deleteLayerGroup(g) has deleted a layer group, no vertex of g still
\* has a point and no point records the deleted layerGroup as parent.
C9_MemberPointsDeleted ==
    (op.name = "deleteLayerGroup" /\ events # <<>>)
    => /\ \A v \in V : vSG[v] = op.arg => ~HasPoint(v)
       /\ \A v \in V : HasPoint(v) => point[v].parent # Dead(op.arg)

\* the call op' repeats a create for an entity that has its visual already
RepeatedCreate ==
    \/ op'.name = "createPoint" /\ HasPoint(op'.arg)
    \/ op'.name = "createLine" /\ line[op'.arg] # None
    \/ op'.name = "createLayerGroup" /\ layerGroup[op'.arg] # NoVisual
    \/ op'.name = "createControlGroup" /\ controlGroup[op'.arg] # NoVisual

ExistingVisual ==
    IF op'.name = "createPoint" THEN Vis("point", op'.arg)
    ELSE IF op'.name = "createLine" THEN Vis("line", line[op'.arg])
    ELSE IF op'.name = "createLayerGroup" THEN Vis("layerGroup", op'.arg)
    ELSE Vis("controlGroup", op'.arg)

\* C10: createPoint, createLine, createLayerGroup and createControlGroup called for
\* an entity that has its visual return that visual, emit no CREATE and leave the
\* layers lookup, the containers and every visual as they are.
C10_CreateIdempotent ==
    [][RepeatedCreate
       => /\ result' = ExistingVisual
          /\ events' = <<>>
          /\ UNCHANGED mapVars
      ]_vars

\* C10 witness: createLine on e21 found the line that e12 created
C10_Witness ==
    /\ op.name = "createLine" /\ op.arg = "e21"
    /\ events = <<>>
    /\ opposite["e21"] = "e12"
    /\ result = Vis("line", "e12")
    /\ "e12" \in layers

(***************************************************************************)
(* Claims about rows and items of the timeline                             *)
(***************************************************************************)
Occurrences(seq, x) == Cardinality({k \in DOMAIN seq : seq[k] = x})

\* C11: a call of createItem or createGroup that does not throw returns the item or
\* group of the given id, which is then registered exactly once.
C11_CreateReturnsEntity ==
    /\ op.name = "createItem"
       => result = op.arg /\ op.arg \in items
    /\ (op.name = "createGroup" /\ result # "TypeError")
       => result = op.arg /\ Occurrences(groups, op.arg) = 1

DeleteOps == {"deletePoint", "deleteLine", "deleteLayerGroup", "deleteControlGroup",
              "deleteItem", "deleteGroup"}

\* the entity x has no visual in the viewer that the operation named n works on
Absent(n, x) ==
    CASE n = "deletePoint" -> point[x] = NoVisual
      [] n = "deleteLine" -> line[x] = None
      [] n = "deleteLayerGroup" -> layerGroup[x] = NoVisual
      [] n = "deleteControlGroup" -> controlGroup[x] = NoVisual
      [] n = "deleteItem" -> x \notin items /\ ~sgItem[x]
      [] n = "deleteGroup" -> ~Has(groups, x)

\* C12: deletePoint, deleteLine, deleteLayerGroup, deleteControlGroup, deleteItem and
\* deleteGroup called for an entity without a visual emit no event, call nothing of
\* the widget and leave the state of both viewers as it was.
C12_DeleteAbsentNoOp ==
    [][(op'.name \in DeleteOps /\ Absent(op'.name, op'.arg))
       => /\ events' = <<>>
          /\ calls' = <<>>
          /\ UNCHANGED tlVars
          /\ UNCHANGED mapVars]_vars

\* a delete that emitted nothing (a delete of an existing visual emits DELETE), in a
\* state where both viewers show something
C12_Witness ==
    /\ op.name \in DeleteOps
    /\ events = <<>>
    /\ layers # {}
    /\ groups # <<>>

\* the width and the padded window that refreshItems computes for the window w are
\* the ones the viewer recorded
RecordedAs(w) ==
    /\ w.width = tlWidth
    /\ w.start - ItemWidth * Scale(w) = tlStart
    /\ w.end = tlEnd

IsCall(c, fn) == c.fn = fn

\* C13: refreshItems() with the recorded width and window recomputes nothing: no
\* setItems, no setSelection, width, start, end and the rendered set stay; with
\* another width or window, and always with force = true, the pass recomputes and
\* hands the widget a new item set.
C13_RefreshGuard ==
    [][/\ (op'.name = "refreshItems" /\ RecordedAs(op'.arg))
          => /\ calls' = <<>>
             /\ UNCHANGED <<tlWidth, tlStart, tlEnd, rendered, tlSelection>>
       /\ (op'.name = "refreshItems" /\ ~RecordedAs(op'.arg))
          => /\ calls' # <<>> /\ IsCall(calls'[1], "setItems")
             /\ tlWidth' = op'.arg.width /\ tlEnd' = op'.arg.end
       /\ op'.name = "aggregateItems"
          => /\ calls' # <<>> /\ IsCall(calls'[1], "setItems")
             /\ tlWidth' = win.width /\ tlEnd' = win.end]_vars

\* an unforced pass that did nothing while items are rendered
C13_Witness ==
    /\ op.name = "refreshItems"
    /\ calls = <<>>
    /\ rendered # {}
    /\ aggregate

ToggleItems == {g \in SG : sgItem[g] \/ g \in selections} \cup {None}
ToggleModes == {"true", "false", "null"}

\* C15: in every reachable state and for every argument, a call of toggleSelection
\* that changes the selection map calls setSelection once, with exactly the ids of the
\* map as it is then; a call that changes nothing calls nothing.
C15_TogglePushes ==
    \A i \in ToggleItems, select \in ToggleModes :
        LET r == toggleSelection(TLState, i, select) IN
        IF r.selections # selections
        THEN /\ r.calls = <<[fn |-> "setSelection", ids |-> r.selections]>>
             /\ r.tlSelection = r.selections
        ELSE /\ r.calls = <<>>
             /\ r.tlSelection = tlSelection

\* a click toggled one item and the widget was handed the new selection
C15_Witness ==
    /\ op.name = "select"
    /\ selections # {}
    /\ calls = <<[fn |-> "setSelection", ids |-> selections]>>

\* C16: in every reachable state, toggleSelection(i, false) for an unselected item,
\* toggleSelection(i, true) for a selected item and toggleSelection without an item
\* leave the selection as it is and emit nothing.
C16_ToggleNoOp ==
    /\ \A i \in ToggleItems \ {None} :
          LET r == toggleSelection(TLState, i, IF isSelected(TLState, i) THEN "true"
                                                ELSE "false")
          IN r.selections = selections /\ r.events = <<>> /\ r.calls = <<>>
    /\ \A select \in ToggleModes :
          LET r == toggleSelection(TLState, None, select)
          IN r.selections = selections /\ r.events = <<>> /\ r.calls = <<>>

\* the settings announced a list whose ids were all selected already or are no items:
\* each toggleSelection(getItem(id), true) of the subscription changed nothing
C16_Witness ==
    /\ op.name = "selections"
    /\ events = <<>>
    /\ \E k \in DOMAIN op.arg : op.arg[k] \in selections
    /\ \E k \in DOMAIN op.arg : op.arg[k] \notin items

\* C17: updateItem(g) for an item whose recorded group differs from the id of g's
\* super group records that id, hands the widget the whole item collection and runs a
\* forced refresh (setItems, then setSelection with the selection map); when the two
\* are equal it changes nothing of the viewer and calls nothing.
C17_UpdateItem ==
    [][op'.name = "updateItem"
       => IF itemGroup[op'.arg] # sgSuper[op'.arg]
          THEN /\ itemGroup' = [itemGroup EXCEPT ![op'.arg] = sgSuper[op'.arg]]
               /\ calls' = <<[fn |-> "setItems", ids |-> <<>>],
                             [fn |-> "setItems", ids |-> <<>>],
                             [fn |-> "setSelection", ids |-> selections']>>
               /\ tlStart' = win.start - ItemWidth * Scale(win)
               /\ tlEnd' = win.end /\ tlWidth' = win.width
          ELSE /\ calls' = <<>>
               /\ UNCHANGED tlVars]_vars

\* updateItem ran for an item whose spatial group had moved to the other row
C17_Witness ==
    /\ op.name = "updateItem"
    /\ calls # <<>>
    /\ itemGroup[op.arg] = "t2"

(***************************************************************************)
(* Claims about coordinates on the map                                     *)
(***************************************************************************)
CoordinateBracket(v) ==
    <<Ev("point", v, "startUpdate(coordinates)"), Ev("point", v, "endUpdate(coordinates)")>>

Writes(fn) == {k \in DOMAIN calls : IsCall(calls[k], fn)}

\* C18: updatePointCoordinates(v) writes the point's coordinates, once and between
\* startUpdate and endUpdate, exactly when v has a point whose coordinates differ
\* from v.coordinates; otherwise it writes nothing and opens no bracket.  A call
\* directly after a call for the same vertex writes nothing.
C18_WriteOnlyWhenDiffers ==
    [][op'.name = "updatePointCoordinates"
       => /\ IF /\ point[op'.arg] # NoVisual
                /\ latLngToCoords(pCoord[op'.arg]) # vCoord[op'.arg]
             THEN /\ pCoord' = [pCoord EXCEPT ![op'.arg] = coordsToLatLng(vCoord[op'.arg])]
                  /\ events' = CoordinateBracket(op'.arg)
                  /\ calls'[1] = [fn |-> "setLatLng", ids |-> op'.arg]
                  /\ \A k \in DOMAIN calls' : k > 1 => ~IsCall(calls'[k], "setLatLng")
             ELSE /\ events' = <<>>
                  /\ calls' = <<>>
                  /\ UNCHANGED mapVars
          /\ (op.name = "updatePointCoordinates" /\ op.arg = op'.arg)
             => /\ events' = <<>>
                /\ calls' = <<>>
                /\ UNCHANGED mapVars]_vars

\* a point was moved to coordinates its vertex did not start with
C18_Witness ==
    /\ op.name = "updatePointCoordinates"
    /\ events = CoordinateBracket(op.arg)
    /\ pCoord[op.arg] = coordsToLatLng(vCoord[op.arg])
    /\ vCoord[op.arg] # HomeCoords[op.arg]

\* the line of edge e joins the points of its two vertices; a line shared with the
\* opposite edge may run in either direction
LineJoinsPoints(e) ==
    LET geometry == latLngsToCoords(lCoord[line[e]])
        f == latLngToCoords(pCoord[EFrom(e)])
        t == latLngToCoords(pCoord[ETo(e)])
    IN \/ geometry = <<f, t>>
       \/ opposite[e] # None /\ geometry = <<t, f>>

\* C19: after updatePointCoordinates(v) has moved v's point, the line of every edge
\* that starts or ends at v joins the points of the edge's two vertices.
C19_IncidentLinesFollow ==
    (/\ op.name = "updatePointCoordinates"
     /\ Writes("setLatLng") # {}
     /\ result = Vis("point", op.arg))
    => \A e \in Edges :
          (/\ op.arg \in {EFrom(e), ETo(e)}
           /\ line[e] # None
           /\ point[EFrom(e)] # NoVisual /\ point[ETo(e)] # NoVisual)
          => LineJoinsPoints(e)

(***************************************************************************)
(* Claims about showing and hiding layer groups                            *)
(***************************************************************************)
Containers == MSG \cup TG

ImpliedParent(kind, x) ==
    IF kind = "point"
    THEN IF layerGroup[vSG[x]] = NoVisual THEN Undef ELSE Live(vSG[x])
    ELSE IF kind = "layerGroup"
    THEN IF sgSuper[x] = None THEN Null
         ELSE IF controlGroup[sgSuper[x]] = NoVisual THEN Undef ELSE Live(sgSuper[x])
    ELSE IF tgSuper(x) = None THEN Null
         ELSE IF controlGroup[tgSuper(x)] = NoVisual THEN Undef ELSE Live(tgSuper(x))

\* C21: in every reachable state deriveParent returns what the model implies, whatever
\* parent the visual has recorded: for a point the layerGroup of the vertex's spatial
\* group, for a layerGroup or controlGroup the controlGroup of the super group, or
\* null without super group; for a line it throws INVALID_MODEL_OBJECT.  After
\* updateParent the recorded parent is the implied one.
C21_DeriveParent ==
    /\ \A v \in V : point[v] # NoVisual
          => deriveParent(MState, "point", v) = ImpliedParent("point", v)
    /\ \A g \in MSG : layerGroup[g] # NoVisual
          => deriveParent(MState, "layerGroup", g) = ImpliedParent("layerGroup", g)
    /\ \A t \in TG : controlGroup[t] # NoVisual
          => deriveParent(MState, "controlGroup", t) = ImpliedParent("controlGroup", t)
    /\ deriveParentThrows("line")
    /\ (op.name = "updateParent" /\ op.arg \in V)
          => point[op.arg].parent = ImpliedParent("point", op.arg)
    /\ (op.name = "updateParent" /\ op.arg \in E)
          => result = Vis("INVALID_MODEL_OBJECT", op.arg) /\ events = <<>>

\* a point was re-parented into the layer group of g2 after its vertex had moved there
C21_Witness ==
    /\ op.name = "updateParent"
    /\ op.arg \in V
    /\ events # <<>>
    /\ vSG[op.arg] = "g2"
    /\ point[op.arg].parent = Live("g2")

\* the containers that list control group t: the children lists of the live control
\* groups and the root list, counted with repetitions
Listings(t) ==
    Occurrences(overlayTree, t)
    + Cardinality({c \in TG : controlGroup[c] # NoVisual
                              /\ Has(controlGroup[c].children, t)})

ListedOnceIn(seq, t) == Occurrences(seq, t) = 1

\* C22: every live controlGroup is listed exactly once, in the children of the
\* controlGroup recorded as its parent or in the root list when it has no parent, and
\* a deleted controlGroup is listed nowhere.
C22_TreeMirrorsModel ==
    \A t \in TG :
        IF controlGroup[t] = NoVisual
        THEN Listings(t) = 0
        ELSE /\ Listings(t) = 1
             /\ IF Truthy(controlGroup[t].parent)
                THEN /\ controlGroup[t].parent.k = "live"
                     /\ ListedOnceIn(controlGroup[controlGroup[t].parent.of].children, t)
                ELSE ListedOnceIn(overlayTree, t)

(***************************************************************************)
(* Claims about the import of tour files                                   *)
(***************************************************************************)
\* the declarations nested directly in declaration d
Nested(d) ==
    IF d \in ImpT THEN Range(json.subGroups[d])
    ELSE IF d \in ImpS THEN Range(json.groupVertices[d])
    ELSE IF d \in ImpV THEN Range(json.outgoingEdges[d])
    ELSE {}

NestedIn(ds) == ds \cup UNION {Nested(d) : d \in ds}

\* every declaration of tour file x, at any depth
TourDeclared(x) ==
    NestedIn(NestedIn(NestedIn(Range(json.temporalGroups[x])
                               \cup Range(json.spatialGroups[x])
                               \cup Range(json.vertices[x]))))

\* the declarations that enclose d, at any depth
Enclosing(d) ==
    LET up(ds) == ds \cup {c \in Declared : Nested(c) \cap ds # {}}
    IN up(up(up({c \in Declared : d \in Nested(c)})))

Malformed(ds) == ds \cap json.bad

\* C23 as stated: after loadGraph every declaration of the tour has been attempted,
\* the error of every malformed one is logged, and the flag is true exactly when no
\* create call threw.
C23_Original ==
    op.name = "loadGraph"
    => /\ \A d \in TourDeclared(op.arg) : Occurrences(imp.attempts, d) = 1
       /\ Range(imp.logged) = Malformed(TourDeclared(op.arg))
       /\ (result = "true") <=> (Malformed(Range(imp.attempts)) = {})

\* C23, amended: loadGraph attempts, once, exactly the declarations that are not
\* nested (at any depth) in a malformed declaration; the error of every attempted
\* malformed declaration is logged once, in the order of the attempts; the flag is
\* true exactly when no create call threw.
C23_SkipsOnlyNested ==
    op.name = "loadGraph"
    => /\ \A d \in TourDeclared(op.arg) :
             Occurrences(imp.attempts, d)
                = (IF Malformed(Enclosing(d)) = {} THEN 1 ELSE 0)
       /\ Range(imp.attempts) \subseteq TourDeclared(op.arg)
       /\ imp.logged = SelectSeq(imp.attempts, LAMBDA d : d \in json.bad)
       /\ (result = "true") <=> (Malformed(Range(imp.attempts)) = {})

\* a malformed temporal group was skipped and the declarations after it were created
C23_Witness ==
    /\ op.name = "loadGraph"
    /\ json.bad = {"T1"}
    /\ imp.attempts = <<"T1", "T2", "S2", "V2", "E2">>
    /\ imp.logged = <<"T1">>
    /\ result = "false"

\* the tours a tour file lists, and the tour files that take part in the import of R
ChildTours(x) == IF json.tours[x].present THEN Range(json.tours[x].list) ELSE {}

ImportedTours == {"R"} \cup ChildTours("R") \cup UNION {ChildTours(c) : c \in ChildTours("R")}

\* the observable is subscribed to and no read of a child tour is pending
ImportFinished ==
    /\ "R" \in imp.subscribed
    /\ imp.searching = {}
    /\ imp.reading = {}

\* C24: when the import of a tour has finished, whatever tours it lists (none, an
\* empty list, one, several), the observable has emitted exactly one value, the graph
\* of the tour itself was loaded exactly once, and the value is true exactly when no
\* declaration of the tour or of its child tours is malformed.
C24_OneValuePerImport ==
    ImportFinished
    => /\ Len(imp.emitted) = 1
       /\ Occurrences(imp.loads, "R") = 1
       /\ imp.emitted[1] <=> (Malformed(UNION {TourDeclared(x) : x \in ImportedTours}) = {})

\* the index of the first attempt to create declaration d (0 when there is none)
FirstAttempt(d) ==
    IF Has(imp.attempts, d)
    THEN CHOOSE k \in DOMAIN imp.attempts :
             imp.attempts[k] = d /\ \A j \in 1..(k - 1) : imp.attempts[j] # d
    ELSE 0

\* the declarations of tour x that loadGraph creates and the first loop of readTour
\* does not
OwnGraph(x) == TourDeclared(x) \ Range(json.temporalGroups[x])

\* the temporal groups of the parent are created before any entity of a child tour
ParentGroupsFirst ==
    \A c \in ChildTours("R") : \A d \in TourDeclared(c) : \A t \in Range(json.temporalGroups["R"]) :
        Has(imp.attempts, d) => FirstAttempt(t) > 0 /\ FirstAttempt(t) < FirstAttempt(d)

\* C28: in readTour every temporal group of the parent is created before any entity
\* of a child tour, and the parent's own spatial groups, vertices and edges are
\* created only when every child tour the parent lists has been read and loaded,
\* whatever the order in which the reads complete.
C28_ChildrenBeforeParentGraph ==
    /\ ParentGroupsFirst
    /\ (\E d \in OwnGraph("R") : Has(imp.attempts, d))
       => \A c \in ChildTours("R") : c \in imp.subscribed

(***************************************************************************)
(* Claims about the moment an event is emitted                             *)
(***************************************************************************)
\* C25: in both viewers, when CREATE is emitted the visual is in the viewer's lookup
\* and referenced by its model entity, and when DELETE is emitted it has left the
\* lookup and the reference is cleared; also when the user removes an item in the
\* timeline.
C25_EventsFollowMutation ==
    \A k \in DOMAIN events :
        /\ events[k].action = "create" => seen[k].registered /\ seen[k].referenced
        /\ events[k].action = "delete" => ~seen[k].registered /\ ~seen[k].referenced

(***************************************************************************)
(* Claims about attaching a visual to its derived parent                   *)
(***************************************************************************)
\* the next operation attaches the visual of x to its derived parent
Attaches(kind, x) ==
    /\ op'.arg = x
    /\ \/ kind = "controlGroup" /\ op'.name = "createControlGroup" /\ controlGroup[x] = NoVisual
       \/ kind = "point" /\ op'.name = "createPoint" /\ point[x] = NoVisual
       \/ kind = "layerGroup" /\ op'.name = "showLayerGroup"
       \/ op'.name = "updateParent"

\* C26: when a visual is attached or re-parented while the container the model
\* implies for it has no visual, the operation fails with an error and the tree of
\* layers stays as it was; the visual is not put on the map root.
C26_NoAttachWithoutParent ==
    [][ /\ \A t \in TG : Attaches("controlGroup", t) /\ ImpliedParent("controlGroup", t) = Undef
               => /\ result'.kind \notin {"point", "layerGroup", "controlGroup"}
                  /\ UNCHANGED <<onMap, kids, overlayTree>>
        /\ \A g \in MSG : Attaches("layerGroup", g) /\ ImpliedParent("layerGroup", g) = Undef
               => /\ result'.kind \notin {"point", "layerGroup", "controlGroup"}
                  /\ UNCHANGED <<onMap, kids, overlayTree>>
        /\ \A v \in V : Attaches("point", v) /\ ImpliedParent("point", v) = Undef
               => /\ result'.kind \notin {"point", "layerGroup", "controlGroup"}
                  /\ UNCHANGED <<onMap, kids, overlayTree>> ]_vars

(***************************************************************************)
(* Claims about the links between vertices and files                       *)
(***************************************************************************)
\* C27: filesystem.unlink(v) for a vertex that is linked to a file f returns without
\* an error; afterwards v has no file, f has no vertex, the path of f is not among the
\* used files and UNLINK was emitted once.  For a vertex without a file it changes
\* nothing and emits nothing.
C27_Unlink ==
    [][ \A v \in V :
          op'.name = "unlink" /\ op'.arg = v
          => IF imageFile[v] = None
             THEN UNCHANGED fsVars /\ events' = <<>> /\ result' = "undefined"
             ELSE fileVertex[imageFile[v]] = v
                  => /\ result' = "undefined"
                     /\ imageFile'[v] = None
                     /\ fileVertex'[imageFile[v]] = None
                     /\ imageFile[v] \notin usedFiles'
                     /\ events' = <<Ev("vertex", v, "unlink file")>> ]_vars

\* C33: filesystem.link(v, f) returns without an error from every prior state, also
\* when v is linked to another file g; afterwards v's file is f, f's vertex is v
\* (unless v is a background), the path of f is among the used files and g does not
\* refer to v; LINK is emitted exactly when v was not linked to f before.
C33_Link ==
    [][ \A v \in Linkable, f \in Files :
          op'.name = "link" /\ op'.arg = <<v, f>>
          => /\ result' = "undefined"
             /\ imageFile'[v] = f
             /\ v \in V => fileVertex'[f] = v
             /\ f \in usedFiles'
             /\ \A g \in Files \ {f} : fileVertex'[g] # v
             /\ events' = IF imageFile[v] = f THEN <<>>
                          ELSE <<Ev("vertex", v, "link file")>> ]_vars


(***************************************************************************)
(* Claims about deleting rows and items of the timeline                    *)
(***************************************************************************)
\* temporal group t and the groups nested in it, at any depth
RECURSIVE NestedGroups(_, _)
NestedGroups(ts, n) ==
    IF n = 0 THEN ts
    ELSE NestedGroups(ts \cup {c \in TG : tgSuper(c) \in ts}, n - 1)

GroupAndNested(t) == NestedGroups({t}, Cardinality(TG))

\* C29: deleteGroup(g) for a registered group leaves neither g nor any group nested in
\* it (at any depth) in the groups map, leaves no item of these groups in items or in
\* the selection, removes g's id from the nestedGroups of its parent, and emits DELETE
\* for every group and every item it deleted.
C29_DeleteGroupCascade ==
    [][ \A t \in TG :
          op'.name = "deleteGroup" /\ op'.arg = t /\ Has(groups, t)
          => LET gone == {c \in GroupAndNested(t) : Has(groups, c)}
                 goneItems == {g \in items : itemGroup[g] \in gone}
             IN /\ \A c \in gone : ~Has(groups', c)
                /\ \A g \in goneItems : g \notin items' /\ g \notin selections'
                /\ tgSuper(t) # None => ~Has(nestedGroups'[tgSuper(t)], t)
                /\ \A c \in gone : Has(events', Ev("group", c, "delete"))
                /\ \A g \in goneItems : Has(events', Ev("item", g, "delete")) ]_vars

RangeElems(shown) == {el \in shown : el.kind = "range"}

\* C31: a rangeItem has the id <first member>-<last member>, is built anew by every
\* recomputing refresh, is never an entry of the items map or of the selection map,
\* and a select event of the widget that carries the id of a rangeItem changes no
\* selection and emits no SELECT, DESELECT or CLICK.
C31_RangeItemNoLifecycle ==
    [][ /\ \A el \in RangeElems(rendered') :
              /\ ElemId(el) = el.members[1] \o "-" \o el.members[Len(el.members)]
              /\ ElemId(el) \notin items'
              /\ ElemId(el) \notin selections'
              /\ ElemId(el) \notin tlSelection'
        /\ (\E k \in DOMAIN calls' : IsCall(calls'[k], "setItems"))
              => \A el \in RangeElems(rendered') :
                     /\ aggregate'
                     /\ \A x \in Range(el.members) : x \in items' /\ itemGroup'[x] = el.group
                     /\ el.start = ItemStart(el.first) /\ el.end = ItemStart(el.last)
        /\ (op'.name = "click" /\ op'.arg \in {ElemId(el) : el \in RangeElems(rendered)})
              => /\ events' = <<>>
                 /\ UNCHANGED <<selections, tlSelection, items, rendered>> ]_vars

\* the user clicked a shown rangeItem while an item was selected
C31_Witness ==
    /\ op.name = "click"
    /\ op.arg \in {ElemId(el) : el \in RangeElems(rendered)}
    /\ selections # {}
    /\ events = <<>>

(***************************************************************************)
(* Claims about the selection of the timeline                              *)
(***************************************************************************)
\* the siblings a selection of g displaces: none under a multiselect parent
Displaced(g) ==
    IF sgSuper[g] # None /\ ~isMultiselect(g) THEN SelectedSiblings(g) \ {g} ELSE {}

\* C32: createItem for a spatial group without an item whose id is listed in the
\* settings' timeline selections emits CREATE and then selects the new item as
\* toggleSelection does (one DESELECT for each displaced sibling, then SELECT); for
\* an id that is not listed only CREATE is emitted and the new item is not selected.
C32_CreateSelectsPreset ==
    [][ \A g \in SG :
          op'.name = "createItem" /\ op'.arg = g /\ g \notin items
          => IF g \in settingsSel
             THEN LET n == Cardinality(Displaced(g)) IN
                  /\ selections' = (selections \ Displaced(g)) \cup {g}
                  /\ Len(events') = n + 2
                  /\ IsEv(events'[1], g, "create")
                  /\ \A k \in 2..(n + 1) :
                         events'[k].action = "deselect" /\ events'[k].id \in Displaced(g)
                  /\ IsEv(events'[n + 2], g, "select")
             ELSE /\ events' = <<Ev("item", g, "create")>>
                  /\ g \notin selections'
                  /\ selections' = selections ]_vars

\* C38: every selected id is the id of an item in the items map whose spatial group
\* references it, after any sequence of createItem, clicks, selection syncs,
\* deleteItem, updateItem and removals by the user.
C38_SelectedAreRegistered ==
    \A g \in selections : g \in items /\ sgItem[g]

\* the viewer has caught up with the graph: every item is shown in the row of the
\* current parent group of its spatial group
RowsCurrent == \A g \in items : itemGroup[g] = sgSuper[g]

\* C39: among the items of the spatial groups under one temporal group that is not
\* multiselect at most one is selected, once updateItem has run for every spatial
\* group that moved.
C39_OneSelectedPerExclusiveGroup ==
    RowsCurrent => OnePerExclusiveGroup(selections \cap items)

(***************************************************************************)
(* Claims about what aggregation shows                                     *)
(***************************************************************************)
\* the items of the items map whose start lies in the window recorded in r
VisibleIn(r) == {g \in r.items : r.tlStart <= ItemStart(g) /\ ItemStart(g) <= r.tlEnd}

\* the rendered elements of r that represent item g
Representing(r, g) == {el \in r.rendered : g \in Range(el.members)}

\* every visible item is represented once, every element represents visible items of
\* one row only, and without a rangeItem the rendered set is the set of visible items
Lossless(r) ==
    /\ \A g \in VisibleIn(r) :
           /\ Cardinality(Representing(r, g)) = 1
           /\ \A el \in Representing(r, g) : Occurrences(el.members, g) = 1
    /\ \A el \in r.rendered :
           /\ Range(el.members) \subseteq VisibleIn(r)
           /\ \A x \in Range(el.members) : r.itemGroup[x] = el.group
    /\ RangeElems(r.rendered) = {}
           => r.rendered = {ItemElem(r, g) : g \in VisibleIn(r)}

\* C40: with aggregateItems on, a recomputing refreshItems, in whatever state of the
\* viewer and for whatever window, renders every visible item of the items map
\* exactly once, as itself or as a member of one rangeItem of its row, and renders
\* nothing else.
C40_AggregationLossless ==
    \A w \in Windows : Lossless(refreshItemsAt(TLState, TRUE, TRUE, w))

(***************************************************************************)
(* Claims about the webkitdirectory                                        *)
(***************************************************************************)
\* every entry addEntry can be called with: from an input or a drop, or from a scan
AnyEntries ==
    NewEntries \cup {readerEntry(k, e) : k \in 1..MaxScans, e \in {FileA, FileB, DirA}}

StoredAt(d, entry) ==
    IF entry.kind = "file" THEN d.files[entry.name]
    ELSE IF entry.kind = "directory" THEN d.directories[entry.name]
    ELSE NoEntry

HandleAt(d, entry) ==
    IF entry.kind = "file" THEN d.files[entry.name].fileHandle
    ELSE d.directories[entry.name].directoryHandle

\* the maps of r are those of d except for the entry of the kind and name of entry
OthersKept(d, r, entry) ==
    /\ \A n \in DirNames :
          (entry.kind = "file" /\ entry.name = n) \/ r.files[n] = d.files[n]
    /\ \A n \in DirNames :
          (entry.kind = "directory" /\ entry.name = n) \/ r.directories[n] = d.directories[n]

\* C34: addEntry is idempotent by entry name.  The first entry of a name (per kind) is
\* stored, gets this directory as parent, CREATE is emitted for it and the call returns
\* true.  A later entry of that name is not stored, no CREATE is emitted and the call
\* returns false; only its handle (and its File) is merged into the stored entry.  Thus
\* adding an entry of a name twice leaves the first one stored.
C34_AddEntryIdempotent ==
    \A entry \in AnyEntries :
        Fresh(entry) /\ entry.kind # "other" =>
        LET d == DState
            r == addEntry(d, entry)
        IN /\ OthersKept(d, r, entry)
           /\ IF StoredAt(d, entry) = NoEntry
              THEN /\ r.ret = TRUE
                   /\ StoredAt(r, entry).obj = entry.obj
                   /\ StoredAt(r, entry).parent = "this"
                   /\ HandleAt(r, entry) = entry.handle
                   /\ r.events = <<Ev(entry.kind, entry.name, "create")>>
                   /\ \A again \in AnyEntries :
                         again.kind = entry.kind /\ again.name = entry.name =>
                         LET r2 == addEntry([r EXCEPT !.events = <<>>], again)
                         IN r2.ret = FALSE /\ r2.events = <<>>
                            /\ StoredAt(r2, entry).obj = entry.obj
              ELSE /\ r.ret = FALSE
                   /\ r.events = <<>>
                   /\ StoredAt(r, entry).obj = StoredAt(d, entry).obj
                   /\ StoredAt(r, entry).parent = "this"
                   /\ HandleAt(r, entry) =
                        IF entry.handle # None THEN entry.handle ELSE HandleAt(d, entry)
                   /\ entry.kind = "file" =>
                        r.files[entry.name].file =
                            IF entry.file # None THEN entry.file
                            ELSE IF entry.handle # None THEN None
                            ELSE d.files[entry.name].file

\* a dropped file of the name a was merged into the entry the first scan had stored
C34_Witness ==
    /\ op.name = "addEntry"
    /\ result = FALSE
    /\ events = <<>>
    /\ dirFiles["a"] # NoEntry
    /\ dirFiles["a"].obj = "s1"
    /\ dirFiles["a"].fileHandle = "hd"

\* the reader passes in progress: the scans that read and have not ended
ReaderPasses == {k \in DOMAIN scans : scans[k].kind = "reader" /\ scans[k].status = "running"}

\* a scan called while a load runs starts no reader of its own and waits for that load
ScanWhileLoadingWaits ==
    op'.name = "scan" /\ loading
    => /\ Len(scans') = Len(scans) + 1
       /\ scans'[Len(scans')].kind = "waiting"
       /\ \A k \in DOMAIN scans : scans'[k] = scans[k]

\* scanned is set only by the callback that received an empty batch
ScannedAfterEmptyBatch ==
    ~scanned /\ scanned'
    => op'.name = "readEntries" /\ NextBatch(op'.arg) = <<>>

\* a scan of a scanned directory without enforce returns the stored entries and reads
\* nothing
ScanOfScannedIsCached ==
    \A enforce \in BOOLEAN :
        op'.name = "scan" /\ op'.arg = enforce /\ scanned /\ ~enforce
        => /\ scans'[Len(scans')].kind = "cached"
           /\ scans'[Len(scans')].cache = getEntries(DState)
           /\ loading' = loading
           /\ dirFiles' = dirFiles /\ dirDirs' = dirDirs

\* C35: scans of one webkitdirectory are single-flight.  At most one reader pass is in
\* progress at any time; a scan called while loading is set starts no second reader and
\* waits for the running load; loading and scanned are never both true; scanned becomes
\* true only after the reader returned an empty batch; a scan of a scanned directory
\* without enforce reads nothing and returns the cached entries.
C35_SingleFlight ==
    /\ [](Cardinality(ReaderPasses) <= 1)
    /\ [](~(loading /\ scanned))
    /\ [][ScanWhileLoadingWaits /\ ScannedAfterEmptyBatch /\ ScanOfScannedIsCached]_vars

\* the k-th scan has ended: it completed or it failed
Ended(k) == k \in DOMAIN scans /\ scans[k].status \in {"completed", "errored"}

\* the k-th scan waits for the running load, or reads
Pending(k) == k \in DOMAIN scans /\ scans[k].status \in {"open", "running"}

\* C36: every observable returned by scan ends.  A scan that reads completes or fails;
\* a scan called while another scan of the directory is loading emits the entries of
\* the directory and completes once that load ends, however it ends; and loading does
\* not stay true forever.
C36_ScansEnd ==
    /\ \A k \in 1..MaxScans : Pending(k) ~> Ended(k)
    /\ loading ~> ~loading

(***************************************************************************)
(* Claims about the accessors                                              *)
(***************************************************************************)
OpenSubjects(a) == {j \in DOMAIN subjects[a] : subjects[a][j].state = "open"}

\* request on the accessor a closes what was open and leaves one new open subject
RequestSupersedes(a) ==
    op'.name = "request" /\ op'.arg = a
    => /\ Len(subjects'[a]) = Len(subjects[a]) + 1
       /\ targetSubject'[a] = Len(subjects'[a])
       /\ subjects'[a][Len(subjects'[a])] = NewSubject
       /\ \A j \in DOMAIN subjects[a] :
             /\ subjects'[a][j].received = subjects[a][j].received
             /\ subjects'[a][j].state =
                  IF subjects[a][j].state = "open" THEN "completed" ELSE subjects[a][j].state
       /\ \A b \in Accessors \ {a} :
             subjects'[b] = subjects[b] /\ targetSubject'[b] = targetSubject[b]

\* confirmSelection hands the selected entries to the open subject of the file tree,
\* completes and drops it; without such a subject it does nothing
ConfirmForwards(selected) ==
    op'.name = "confirmSelection" /\ op'.arg = selected
    => LET j == targetSubject["tree"]
       IN IF j # 0
          THEN /\ subjects["tree"][j].state = "open"
               /\ subjects'["tree"] =
                    [subjects["tree"] EXCEPT
                        ![j] = [state |-> "completed",
                                received |-> subjects["tree"][j].received
                                             \o selectedEntries(TreeNodes, selected)]]
               /\ targetSubject'["tree"] = 0
          ELSE subjects' = subjects /\ targetSubject' = targetSubject

\* C37: in the disk accessor, the file tree, the cordova accessor and the electron
\* accessor a new request supersedes the pending one: it completes the subject of the
\* earlier request, so that at most one subject of an accessor is open at any time.
\* confirmSelection of the file tree forwards the selected entries to the open subject,
\* completes and discards it; a second confirmSelection without a new request in between
\* delivers nothing.
C37_RequestSupersedes ==
    /\ [](\A a \in Accessors : Cardinality(OpenSubjects(a)) <= 1)
    /\ [](op.name = "confirmSelection" => targetSubject["tree"] = 0)
    /\ [][ /\ \A a \in Accessors : RequestSupersedes(a)
           /\ \A selected \in SUBSET Range(TreeNodes) : ConfirmForwards(selected)
           /\ op.name = "confirmSelection" /\ op'.name = "confirmSelection"
              => subjects' = subjects ]_vars

\* the file tree was asked twice and the selection then confirmed: the subject of the
\* first request ended empty, the second one received the two selected entries
C37_Witness ==
    /\ op.name = "confirmSelection"
    /\ Len(subjects["tree"]) = 2
    /\ subjects["tree"][1] = [state |-> "completed", received |-> <<>>]
    /\ subjects["tree"][2] = [state |-> "completed", received |-> <<"a", "b">>]
    /\ targetSubject["tree"] = 0

====
